---- MODULE Spec2Model ----
(***************************************************************************)
(* A model of cralph: the runner loop (src/src/runner.ts), the shared      *)
(* shutdown state (src/src/state.ts) and the path configuration helpers    *)
(* (src/src/paths.ts).                                                     *)
(*                                                                         *)
(* Text is modelled at character level: a string is a sequence of          *)
(* one-character strings, so that substring search, trimming and replace   *)
(* are computed the way the JavaScript built-ins compute them.             *)
(***************************************************************************)
EXTENDS Integers, Sequences, FiniteSets, TLC

----------------------------------------------------------------------------
(* Bounds of the model                                                     *)

\* largest N of the scripted agent (sentinel on invocation N+1)
MaxN == 2

\* number of calls one unit test of state.ts makes
MaxCalls == 4

\* longest path text enumerated in full as a configured path
MaxPathLen == 3

\* largest number of refs of a configuration whose paths are converted
MaxRefs == 1

\* largest number of refs of a configuration that is validated
MaxValidateRefs == 3

\* largest number of characters added to the template of the TODO
MaxAdded == 1

\* number of calls of createStarterStructure on one directory
MaxStarterCalls == 2

\* number of runs of cralph that check the authentication of the agent
MaxAuthCalls == 2

----------------------------------------------------------------------------
(* JavaScript string built-ins, on sequences of characters                 *)

\* a file that does not exist; no content is a sequence of this shape
NoFile == <<"ENOENT">>
\* the null subprocess handle; subprocesses are numbered from 1
null == 0
\* no IterationResult yet
NoResult == [none |-> TRUE]
\* the exit code of a process that has not exited
NotExited == -1

IsWhiteSpace(c) == c \in {" ", "\n", "\t", "\r"}

RECURSIVE trimStart(_)
trimStart(s) ==
  IF s # <<>> /\ IsWhiteSpace(Head(s)) THEN trimStart(Tail(s)) ELSE s

RECURSIVE trimEnd(_)
trimEnd(s) ==
  IF s # <<>> /\ IsWhiteSpace(s[Len(s)])
  THEN trimEnd(SubSeq(s, 1, Len(s) - 1))
  ELSE s

trim(s) == trimEnd(trimStart(s))

startsWith(s, p) == Len(p) <= Len(s) /\ SubSeq(s, 1, Len(p)) = p

RECURSIVE ScanFrom(_, _, _)
ScanFrom(s, p, i) ==
  LET MatchAt(k) ==
        k + Len(p) - 1 <= Len(s) /\ SubSeq(s, k, k + Len(p) - 1) = p
  IN  IF i + Len(p) - 1 > Len(s) THEN -1
      ELSE IF MatchAt(i) THEN i - 1
      ELSE ScanFrom(s, p, i + 1)

\* String.prototype.indexOf: 0-based index of the first occurrence, or -1
indexOf(s, p) == ScanFrom(s, p, 1)

\* String.prototype.includes
includes(s, p) == indexOf(s, p) # -1

\* String.prototype.replace with a string pattern: first occurrence only
replace(s, p, r) ==
  LET k == indexOf(s, p)
  IN  IF k = -1 THEN s
      ELSE SubSeq(s, 1, k) \o r \o SubSeq(s, k + Len(p) + 1, Len(s))

----------------------------------------------------------------------------
(* Constants of runner.ts                                                  *)

COMPLETION_SIGNAL ==
  <<"<", "p", "r", "o", "m", "i", "s", "e", ">", "C", "O", "M", "P", "L",
    "E", "T", "E", "<", "/", "p", "r", "o", "m", "i", "s", "e", ">">>

\* the template of the runner with commit and goal conversion
INITIAL_TODO_CONTENT ==
  <<"#", " ", "T", "a", "s", "k", "s", "\n", "\n", "-", " ", "[", " ", "]",
    " ", "T", "a", "s", "k", " ", "1", "\n", "-", " ", "[", " ", "]", " ",
    "T", "a", "s", "k", " ", "2", "\n", "\n", "-", "-", "-", "\n", "\n",
    "#", " ", "N", "o", "t", "e", "s", "\n", "\n", "_", "A", "p", "p", "e",
    "n", "d", " ", "p", "r", "o", "g", "r", "e", "s", "s", " ", "a", "n",
    "d", " ", "l", "e", "a", "r", "n", "i", "n", "g", "s", " ", "h", "e",
    "r", "e", " ", "a", "f", "t", "e", "r", " ", "e", "a", "c", "h", " ",
    "i", "t", "e", "r", "a", "t", "i", "o", "n", "_", "\n">>

GOAL_MARK == <<"#", " ", "G", "O", "A", "L">>

----------------------------------------------------------------------------
(* The collaborators: the agent and git, as scripted by a test             *)

TxtOk == <<"o", "k">>
TxtError == <<"e", "r", "r", "o", "r">>
TxtLowerCase ==
  <<"<", "p", "r", "o", "m", "i", "s", "e", ">", "c", "o", "m", "p", "l",
    "e", "t", "e", "<", "/", "p", "r", "o", "m", "i", "s", "e", ">">>
TxtHalf1 == <<"<", "p", "r", "o", "m", "i", "s", "e", ">", "C", "O", "M", "P">>
TxtHalf2 == <<"L", "E", "T", "E", "<", "/", "p", "r", "o", "m", "i", "s", "e", ">">>
TxtDone == <<"d", "o", "n", "e", " ">>

\* What the agent may answer.  sentinel records, by construction of the
\* text, whether stdout followed by stderr holds the completion sentinel.
Reply(out, err, code, s) ==
  [stdout |-> out, stderr |-> err, exitCode |-> code, sentinel |-> s]

RepliesWithout ==
  { Reply(TxtOk, <<>>, 0, FALSE),
    Reply(<<>>, TxtError, 1, FALSE),
    Reply(TxtLowerCase, <<>>, 0, FALSE),
    Reply(TxtDone \o <<"<", "p", "r", "o", "m", "i", "s", "e", ">", " ", "C",
        "O", "M", "P", "L", "E", "T", "E", " ", "<", "/", "p", "r", "o", "m",
        "i", "s", "e", ">">>, <<>>, 1, FALSE),
    Reply(TxtHalf2, TxtHalf1, 0, FALSE) }

RepliesWith ==
  { Reply(COMPLETION_SIGNAL, <<>>, 0, TRUE),
    Reply(TxtDone \o COMPLETION_SIGNAL \o <<" ", "b", "y", "e">>, TxtError, 1,
        TRUE),
    Reply(TxtHalf1, TxtHalf2, 0, TRUE),
    Reply(TxtLowerCase, COMPLETION_SIGNAL, 1, TRUE) }

\* the scripted agent: no sentinel on the first n invocations, the
\* sentinel on invocation n+1, anything afterwards
AgentReplies(n, k) ==
  IF k <= n THEN RepliesWithout
  ELSE IF k = n + 1 THEN RepliesWith
  ELSE RepliesWithout \cup RepliesWith

\* how git behaves during one run
\*   works      add and commit exit 0
\*   nothing    add exits 0, commit exits 1 (nothing to commit)
\*   norepo     add and commit exit 128 (not a git repository)
\*   nospawn    Bun.spawn throws (git is not installed)
VcsModes == {"works", "nothing", "norepo", "nospawn"}

TodoGoal ==
  <<"#", " ", "G", "O", "A", "L", "\n", "s", "h", "i", "p", " ", "i", "t">>
TodoProgress ==
  <<"#", " ", "T", "a", "s", "k", "s", "\n", "\n", "-", " ", "[", "x", "]",
    " ", "T", "a", "s", "k", " ", "1", "\n">>

\* the TODO documents a run may find in the output directory
RunnerTodos ==
  {NoFile, INITIAL_TODO_CONTENT, TodoGoal, <<" ", "\n">> \o TodoGoal,
   TodoProgress}

\* how the goal conversion subprocess may end: Bun.spawn throws, the 60 s
\* timer wins the race, or the subprocess exits with a code and an output
NoConv == [kind |-> "none"]
ConvOutcomes ==
  { [kind |-> "throw"],
    [kind |-> "timeout"],
    [kind |-> "exit", exitCode |-> 1, stdout |-> TxtError],
    [kind |-> "exit", exitCode |-> 0, stdout |-> <<"#", " ", "T", "a", "s",
        "k", "s", "\n", "-", " ", "[", " ", "]", " ", "a">>],
    [kind |-> "exit", exitCode |-> 0,
     stdout |-> <<"S", "u", "r", "e", "!", "\n">> \o <<"#", " ", "T", "a", "s",
         "k", "s", "\n", "-", " ", "[", " ", "]", " ", "a">> \o <<"\n">>] }

----------------------------------------------------------------------------
(* State                                                                   *)

VARIABLES
  pc,           \* position of run(): start, loop, agent, commit, sleep,
                \* done (run returned), failed (run rejected), exited
  iteration,    \* state.iteration
  logFile,      \* content of .ralph/ralph.log, a sequence of log lines
  todoFile,     \* content of .ralph/TODO.md, or NoFile
  result,       \* the IterationResult of the last runIteration, or NoResult
  currentProc,  \* state.ts: the tracked subprocess, or null
  shuttingDown, \* state.ts: the shutdown flag
  procStatus,   \* the agent subprocesses spawned: running, exited, killed
  procExit,     \* exit code of the cralph process, or NotExited
  scriptN,      \* the script of the agent: sentinel on invocation N+1
  replies,      \* what the agent has answered so far, one per invocation
  vcs,          \* the script of git for this run
  vcsCalls,     \* the git command lines spawned so far
  calls,        \* unit test of state.ts: the calls made, with what they gave
  cwd,          \* process.cwd()
  loaded,       \* the PathsFileConfig read from .ralph/paths.json
  config,       \* the RalphConfig in use
  stored,       \* the PathsFileConfig written to .ralph/paths.json
  reloaded,     \* the RalphConfig resolved from the written file
  fs,           \* the paths that exist on disk
  validation,   \* what validateConfig gave
  todo0,        \* the TODO document found when the run started
  prompted,     \* the answer to the reset prompt, if it was asked
  notices,      \* what the cli has written to the console
  ending,       \* how main.run ended, with the error its catch received
  killCalls,    \* state.ts: the kill() calls made, with the state of the
                \* subprocess at the call
  args,         \* the command line arguments of cralph
  shown,        \* the prompts cralph has shown to the user so far
  prompt,       \* the text run() built for the agent, <<>> before that
  stdins,       \* what each agent subprocess was given on its stdin
  authCache,    \* content of ~/.cralph/auth-cache.json
  clock,        \* Date.now(), in milliseconds
  authCalls,    \* the calls of checkClaudeAuth made so far
  race          \* an auxiliary agent call racing its timer

runnerVars ==
  <<pc, iteration, logFile, todoFile, result, currentProc, procStatus,
    procExit, scriptN, replies, vcs, vcsCalls, prompt, stdins>>

pathVars == <<cwd, loaded, config, stored, reloaded>>
validateVars == <<fs, validation>>
todoVars == <<todo0, prompted>>

cliVars == <<notices, ending, killCalls, args, shown>>
authVars == <<authCache, clock, authCalls>>

\* what the run of cralph below leaves alone
harnessVars ==
  <<calls, pathVars, validateVars, todoVars, cliVars, authVars, race>>

vars == <<runnerVars, shuttingDown, harnessVars>>

----------------------------------------------------------------------------
(* runner.ts                                                               *)

\* the header initRunner writes; the start time is not modelled
logHeader == <<"Ralph Session">>

\* a log that writes the line without the content read before
log_overwrite(file, message) == <<message>>

\* log(state, message): read the file, write it back with one more line.
\* The timestamp of the line is not modelled.
log(file, message) == file \o <<message>>

----------------------------------------------------------------------------
(* prompt.ts                                                               *)

\* BASE_PROMPT, from its stop condition on: the sections before it hold no
\* placeholder and are left out
BASE_PROMPT ==
  <<"O", "u", "t", "p", "u", "t", " ", "e", "x", "a", "c", "t", "l", "y",
    ":", "\n", "\n">>
    \o COMPLETION_SIGNAL \o
    <<"\n", "\n", "*", "*", "I", "M", "P", "O", "R", "T", "A", "N", "T",
      ":", "*", "*">>

TxtNone == <<"_", "N", "o", "n", "e", "_">>

\* config.refs.map((r) => `- ${r}`).join("\n")
RECURSIVE refsLines(_)
refsLines(refs) ==
  IF refs = <<>> THEN <<>>
  ELSE <<"-", " ">> \o Head(refs) \o
       (IF Len(refs) = 1 THEN <<>> ELSE <<"\n">> \o refsLines(Tail(refs)))

\* a prompt that lists the first ref only
buildPrompt_firstRef(cfg, todoPath) ==
  BASE_PROMPT \o <<"\n", "\n", "-", "-", "-", "\n", "\n", "#", "#", " ", "C",
      "o", "n", "f", "i", "g", "u", "r", "a", "t", "i", "o", "n", "\n", "\n",
      "*", "*", "T", "O", "D", "O", " ", "f", "i", "l", "e", " ", "(", "r",
      "e", "a", "d", " ", "f", "i", "r", "s", "t", ",", " ", "u", "p", "d",
      "a", "t", "e", " ", "a", "f", "t", "e", "r", " ", "e", "a", "c", "h",
      " ", "t", "a", "s", "k", ")", ":", "*", "*", "\n">> \o todoPath \o
      <<"\n", "\n", "*", "*", "R", "e", "f", "s", " ", "(", "r", "e", "a", "d",
          "-", "o", "n", "l", "y", " ", "r", "e", "f", "e", "r", "e", "n", "c",
          "e", " ", "m", "a", "t", "e", "r", "i", "a", "l", ")", ":", "*", "*",
          "\n">>
    \o (IF Len(cfg.refs) > 0 THEN <<"-", " ">> \o cfg.refs[1] ELSE TxtNone)
    \o <<"\n", "\n", "*", "*", "O", "u", "t", "p", "u", "t", " ", "d", "i",
        "r", "e", "c", "t", "o", "r", "y", " ", "(", "w", "r", "i", "t", "e",
        " ", "y", "o", "u", "r", " ", "w", "o", "r", "k", " ", "h", "e", "r",
        "e", ")", ":", "*", "*", "\n">> \o cfg.output \o <<"\n">>

\* buildPrompt(config, todoFile)
buildPrompt(cfg, todoPath) ==
  BASE_PROMPT \o <<"\n", "\n", "-", "-", "-", "\n", "\n", "#", "#", " ", "C",
      "o", "n", "f", "i", "g", "u", "r", "a", "t", "i", "o", "n", "\n", "\n",
      "*", "*", "T", "O", "D", "O", " ", "f", "i", "l", "e", " ", "(", "r",
      "e", "a", "d", " ", "f", "i", "r", "s", "t", ",", " ", "u", "p", "d",
      "a", "t", "e", " ", "a", "f", "t", "e", "r", " ", "e", "a", "c", "h",
      " ", "t", "a", "s", "k", ")", ":", "*", "*", "\n">> \o todoPath \o
      <<"\n", "\n", "*", "*", "R", "e", "f", "s", " ", "(", "r", "e", "a", "d",
          "-", "o", "n", "l", "y", " ", "r", "e", "f", "e", "r", "e", "n", "c",
          "e", " ", "m", "a", "t", "e", "r", "i", "a", "l", ")", ":", "*", "*",
          "\n">>
    \o (IF Len(cfg.refs) > 0 THEN refsLines(cfg.refs) ELSE TxtNone)
    \o <<"\n", "\n", "*", "*", "O", "u", "t", "p", "u", "t", " ", "d", "i",
        "r", "e", "c", "t", "o", "r", "y", " ", "(", "w", "r", "i", "t", "e",
        " ", "y", "o", "u", "r", " ", "w", "o", "r", "k", " ", "h", "e", "r",
        "e", ")", ":", "*", "*", "\n">> \o cfg.output \o <<"\n">>

createPrompt(cfg, todoPath) == buildPrompt(cfg, todoPath)

\* join(config.output, ".ralph", "TODO.md"), for an output directory below
\* the root
todoFilePath(output) ==
  output \o
    <<"/", ".", "r", "a", "l", "p", "h", "/", "T", "O", "D", "O", ".", "m",
      "d">>

----------------------------------------------------------------------------
(* runner.ts: the start of a run                                           *)

\* a conversion that writes what the agent printed whatever its exit code
convertGoalToTasks_anyExit(content, conv) ==
  IF conv.kind = "throw" THEN content
  ELSE IF conv.kind = "timeout" THEN content
  ELSE trim(conv.stdout) \o <<"\n">>

\* convertGoalToTasks: the content of the TODO after the conversion
convertGoalToTasks(content, conv) ==
  IF conv.kind = "throw" THEN content
  ELSE IF conv.kind = "timeout" THEN content
  ELSE IF conv.exitCode # 0 THEN content
  ELSE LET output == trim(conv.stdout)
           tasksIndex == indexOf(output, <<"#", " ", "T", "a", "s", "k", "s">>)
           stripped == IF tasksIndex > 0 THEN (SubSeq(output, tasksIndex + 1,
               Len(output)))
                       ELSE output
       IN  trim(stripped) \o <<"\n">>

\* an auxiliary agent call: the subprocess (nospawn, running, exited,
\* killed), its timer (unset, pending, fired), what Promise.race resolved
\* to, and whether the function has returned
Race(op, proc, timer, res, returned) ==
  [op |-> op, proc |-> proc, timer |-> timer, result |-> res,
   returned |-> returned]

IsGoal(content) == startsWith(trimStart(content), GOAL_MARK)

\* initRunner and the prelude of run(): session state, log header, TODO
initRunner ==
  LET Settled(op, conv) ==
        Race(op,
             IF conv.kind = "throw" THEN "nospawn"
             ELSE IF conv.kind = "timeout" THEN "killed" ELSE "exited",
             IF conv.kind = "throw" THEN "unset"
             ELSE IF conv.kind = "timeout" THEN "fired" ELSE "pending",
             conv, TRUE)
  IN  /\ pc = "start"
      /\ \E conv \in (IF todoFile # NoFile /\ IsGoal(todoFile)
                      THEN ConvOutcomes ELSE {NoConv}) :
           /\ todoFile' = IF todoFile = NoFile THEN INITIAL_TODO_CONTENT
                          ELSE IF IsGoal(todoFile)
                               THEN convertGoalToTasks(todoFile, conv)
                               ELSE todoFile
           /\ race' = IF conv = NoConv THEN race
                      ELSE Settled("convertGoalToTasks", conv)
      /\ iteration' = 0
      /\ logFile' = logHeader
      /\ prompt' = createPrompt(config, todoFilePath(config.output))
      /\ pc' = "loop"
      /\ UNCHANGED <<result, currentProc, procStatus, procExit, scriptN,
                     replies, vcs, vcsCalls, shuttingDown, stdins>>
      /\ UNCHANGED <<calls, pathVars, validateVars, todoVars, cliVars, authVars>>

\* output = stdout + stderr
captured(stdout, stderr) == stdout \o stderr

\* a detection that accepts the sentinel only at the start of the output
isComplete_atStart(output) == startsWith(output, COMPLETION_SIGNAL)

\* const isComplete = output.includes(COMPLETION_SIGNAL)
isComplete(output) == includes(output, COMPLETION_SIGNAL)

\* a runIteration that does not wait for the agent it spawned before
runIterationSpawn_noAwait ==
  /\ pc \in {"loop", "agent"}
  /\ iteration < MaxN + 2
  /\ iteration' = iteration + 1
  /\ logFile' = log(logFile, <<"Iteration ", iteration', " starting">>)
  /\ procStatus' = Append(procStatus, "running")
  /\ currentProc' = Len(procStatus')
  /\ stdins' = Append(stdins, prompt)
  /\ pc' = "agent"
  /\ UNCHANGED <<todoFile, result, procExit, scriptN, replies, vcs,
                 vcsCalls, shuttingDown, prompt>>
  /\ UNCHANGED harnessVars

\* runIteration up to the spawn: count the iteration, log its start, spawn
\* the agent and track the subprocess
runIterationSpawn ==
  /\ pc = "loop"
  /\ iteration < MaxN + 2
  /\ iteration' = iteration + 1
  /\ logFile' = log(logFile, <<"Iteration ", iteration', " starting">>)
  /\ procStatus' = Append(procStatus, "running")
  /\ currentProc' = Len(procStatus')
  /\ stdins' = Append(stdins, prompt)
  /\ pc' = "agent"
  /\ UNCHANGED <<todoFile, result, procExit, scriptN, replies, vcs,
                 vcsCalls, shuttingDown, prompt>>
  /\ UNCHANGED harnessVars

\* the agent subprocess has done its work, on the TODO too, closes its
\* output and exits; run() is still waiting in its awaits and resumes in a
\* later turn of the event loop
agentExits ==
  /\ pc = "agent"
  /\ procStatus[Len(procStatus)] = "running"
  /\ procStatus' = [procStatus EXCEPT ![Len(procStatus)] = "exited"]
  /\ todoFile' \in {todoFile, TodoProgress}
  /\ UNCHANGED <<pc, iteration, logFile, result, currentProc,
                 procExit, scriptN, replies, vcs, vcsCalls, shuttingDown>>
  /\ UNCHANGED <<prompt, stdins>>
  /\ UNCHANGED harnessVars

\* a runIteration that leaves the handle of the exited agent in place
runIterationCollect_keepsHandle ==
  /\ pc = "agent"
  /\ procStatus[Len(procStatus)] = "exited"
  /\ \E reply \in AgentReplies(scriptN, Len(procStatus)) :
       LET output == captured(reply.stdout, reply.stderr)
       IN  /\ replies' = Append(replies, reply)
           /\ logFile' = log(logFile, output)
           /\ result' = [exitCode |-> reply.exitCode,
                         output |-> output,
                         isComplete |-> isComplete(output)]
  /\ pc' = "commit"
  /\ UNCHANGED <<iteration, todoFile, currentProc, procStatus, procExit,
                 scriptN, vcs, vcsCalls, shuttingDown>>
  /\ UNCHANGED <<prompt, stdins>>
  /\ UNCHANGED harnessVars

\* runIteration from the end of the agent's output: the awaits on stdout,
\* stderr and proc.exited have resolved, the handle is cleared, the output
\* is logged and classified
runIterationCollect ==
  /\ pc = "agent"
  /\ procStatus[Len(procStatus)] = "exited"
  /\ \E reply \in AgentReplies(scriptN, Len(procStatus)) :
       LET output == captured(reply.stdout, reply.stderr)
       IN  /\ replies' = Append(replies, reply)
           /\ logFile' = log(logFile, output)
           /\ result' = [exitCode |-> reply.exitCode,
                         output |-> output,
                         isComplete |-> isComplete(output)]
  /\ currentProc' = null
  /\ pc' = "commit"
  /\ UNCHANGED <<iteration, todoFile, procStatus, procExit, scriptN, vcs,
                 vcsCalls, shuttingDown>>
  /\ UNCHANGED <<prompt, stdins>>
  /\ UNCHANGED harnessVars

commitMessage(k) == <<"chore(ralph): iteration ", k, " progress">>

\* a commit step without the try/catch: a failure to spawn git escapes
tryCommitProgress_uncaught(file, cmds, k, mode) ==
  [raised |-> mode = "nospawn",
   calls |-> cmds,
   logFile |-> file]

\* tryCommitProgress: git add -A, git commit, one log line.  raised tells
\* whether an error leaves the function; a failure to spawn git is caught.
tryCommitProgress(file, cmds, k, mode) ==
  LET GitExit(cmd) ==
        IF mode = "works" THEN 0
        ELSE IF mode = "nothing" THEN (IF cmd = "add" THEN 0 ELSE 1)
        ELSE 128
  IN  IF mode = "nospawn"
      THEN [raised |-> FALSE,
            calls |-> cmds,
            logFile |-> log(file, <<"Commit failed: ", "spawn git">>)]
      ELSE LET exitCode == GitExit("commit")
           IN  [raised |-> FALSE,
                calls |-> cmds \o << <<"git", "add", "-A">>,
                                      <<"git", "commit", "-m", commitMessage(k),
                                        "--no-verify">> >>,
                logFile |-> IF exitCode = 0
                            THEN log(file, <<"Committed: ", commitMessage(k)>>)
                            ELSE log(file, <<"No changes to commit for iteration ",
                                             k>>)]

\* a loop that never leaves on the sentinel
loopBreaks_never(r) == FALSE

\* a loop that also gives up on a failed iteration
loopBreaks_onFailure(r) == r.isComplete \/ r.exitCode # 0

\* if (result.isComplete) break
loopBreaks(r) == r.isComplete

\* a loop that leaves on the sentinel before it commits
runCommit_afterBreak ==
  /\ pc = "commit"
  /\ LET c == IF loopBreaks(result)
              THEN [raised |-> FALSE, calls |-> vcsCalls, logFile |-> logFile]
              ELSE tryCommitProgress(logFile, vcsCalls, iteration, vcs)
     IN  /\ logFile' = c.logFile
         /\ vcsCalls' = c.calls
         /\ pc' = IF c.raised THEN "failed"
                  ELSE IF loopBreaks(result) THEN "done"
                  ELSE "sleep"
  /\ UNCHANGED <<iteration, todoFile, result, currentProc, procStatus,
                 procExit, scriptN, replies, vcs, shuttingDown>>
  /\ UNCHANGED <<prompt, stdins>>
  /\ UNCHANGED harnessVars

\* a loop that goes on to the next agent without the commit
runCommit_skipped ==
  /\ pc = "commit"
  /\ pc' = IF loopBreaks(result) THEN "done" ELSE "sleep"
  /\ UNCHANGED <<iteration, logFile, todoFile, result, currentProc,
                 procStatus, procExit, scriptN, replies, vcs, vcsCalls,
                 shuttingDown>>
  /\ UNCHANGED <<prompt, stdins>>
  /\ UNCHANGED harnessVars

\* run(): the commit after the iteration, then the test that ends the loop
runCommit ==
  /\ pc = "commit"
  /\ LET c == tryCommitProgress(logFile, vcsCalls, iteration, vcs)
     IN  /\ logFile' = c.logFile
         /\ vcsCalls' = c.calls
         /\ pc' = IF c.raised THEN "failed"
                  ELSE IF loopBreaks(result) THEN "done"
                  ELSE "sleep"
  /\ UNCHANGED <<iteration, todoFile, result, currentProc, procStatus,
                 procExit, scriptN, replies, vcs, shuttingDown>>
  /\ UNCHANGED <<prompt, stdins>>
  /\ UNCHANGED harnessVars

\* a loop that gives up after two iterations
runSleep_bounded ==
  /\ pc = "sleep"
  /\ pc' = IF iteration >= 2 THEN "done" ELSE "loop"
  /\ UNCHANGED <<iteration, logFile, todoFile, result, currentProc,
                 procStatus, procExit, scriptN, replies, vcs, vcsCalls,
                 shuttingDown>>
  /\ UNCHANGED <<prompt, stdins>>
  /\ UNCHANGED harnessVars

\* a loop that counts the pass a second time after the sleep
runSleep_counts ==
  /\ pc = "sleep"
  /\ pc' = "loop"
  /\ iteration' = iteration + 1
  /\ UNCHANGED <<logFile, todoFile, result, currentProc,
                 procStatus, procExit, scriptN, replies, vcs, vcsCalls,
                 shuttingDown>>
  /\ UNCHANGED <<prompt, stdins>>
  /\ UNCHANGED harnessVars

\* a delay that puts the template back into the TODO
runSleep_resets ==
  /\ pc = "sleep"
  /\ pc' = "loop"
  /\ todoFile' = INITIAL_TODO_CONTENT
  /\ UNCHANGED <<iteration, logFile, result, currentProc,
                 procStatus, procExit, scriptN, replies, vcs, vcsCalls,
                 shuttingDown>>
  /\ UNCHANGED <<prompt, stdins>>
  /\ UNCHANGED harnessVars

\* await Bun.sleep(2000)
runSleep ==
  /\ pc = "sleep"
  /\ pc' = "loop"
  /\ UNCHANGED <<iteration, logFile, todoFile, result, currentProc,
                 procStatus, procExit, scriptN, replies, vcs, vcsCalls,
                 shuttingDown>>
  /\ UNCHANGED <<prompt, stdins>>
  /\ UNCHANGED harnessVars

----------------------------------------------------------------------------
(* state.ts and the signal handlers of cli.ts                              *)

\* Subprocess.kill(): a running subprocess is killed, one that has exited
\* stays as it is
kill(status, proc) ==
  IF status[proc] = "running" THEN [status EXCEPT ![proc] = "killed"]
  ELSE status

\* cleanupSubprocess: kill the tracked subprocess, if any, and forget it.
\* kills are the kill() calls it makes.
cleanupSubprocess(status, proc) ==
  IF proc # null
  THEN [status |-> kill(status, proc),
        kills |-> <<[proc |-> proc, was |-> status[proc]]>>,
        currentProc |-> null]
  ELSE [status |-> status, kills |-> <<>>, currentProc |-> proc]

\* a setter that flips the flag
setShuttingDown_toggle(flag) == ~flag

\* setShuttingDown: the new value of the flag
setShuttingDown(flag) == TRUE

\* isShuttingDown: what it returns
isShuttingDown(flag) == flag

\* resetShutdownState: the new value of the flag
resetShutdownState(flag) == FALSE

\* JavaScript values, as far as typeof tells them apart
JsValue(k, v) == [kind |-> k, val |-> v]

\* a check that takes every falsy result for a cancellation
throwIfCancelled_falsy(res, flag) ==
  IF (IF res.kind = "null" THEN "object" ELSE res.kind) = "symbol" \/ res.val
      \in {"null", "undefined", "false"}
     \/ isShuttingDown(flag)
  THEN "Selection cancelled"
  ELSE ""

\* throwIfCancelled: the message of the error it throws, "" when it returns
throwIfCancelled(res, flag) ==
  IF (IF res.kind = "null" THEN "object" ELSE res.kind) = "symbol" \/
      isShuttingDown(flag)
  THEN "Selection cancelled"
  ELSE ""

\* a handler that forgets the tracked subprocess
onSIGINT_noCleanup(flag, status, proc) ==
  IF isShuttingDown(flag)
  THEN [flag |-> flag, status |-> status, kills |-> <<>>,
        currentProc |-> proc, notices |-> <<>>, exitCode |-> 1]
  ELSE [flag |-> setShuttingDown(flag), status |-> status, kills |-> <<>>,
        currentProc |-> proc, notices |-> <<"Cancelled.">>, exitCode |-> 0]

\* the SIGINT handler of setupGracefulExit: what it leaves behind and the
\* code it hands to process.exit
onSIGINT(flag, status, proc) ==
  IF isShuttingDown(flag)
  THEN [flag |-> flag, status |-> status, kills |-> <<>>,
        currentProc |-> proc, notices |-> <<>>, exitCode |-> 1]
  ELSE LET c == cleanupSubprocess(status, proc)
       IN  [flag |-> setShuttingDown(flag), status |-> c.status,
            kills |-> c.kills, currentProc |-> c.currentProc,
            notices |-> <<"Cancelled.">>, exitCode |-> 0]

\* a handler whose process.exit is missing: run() goes on
Handled_noExit(h) ==
  /\ shuttingDown' = h.flag
  /\ procStatus' = h.status
  /\ currentProc' = h.currentProc
  /\ killCalls' = killCalls \o h.kills
  /\ notices' = notices \o h.notices
  /\ UNCHANGED <<pc, procExit, iteration, logFile, todoFile, result, scriptN,
                 replies, vcs, vcsCalls>>
  /\ UNCHANGED <<calls, pathVars, validateVars, todoVars, ending, args,
                 shown, prompt, stdins, authVars, race>>

\* a signal handler runs to its process.exit
Handled(h) ==
  /\ shuttingDown' = h.flag
  /\ procStatus' = h.status
  /\ currentProc' = h.currentProc
  /\ killCalls' = killCalls \o h.kills
  /\ notices' = notices \o h.notices
  /\ procExit' = h.exitCode
  /\ pc' = "exited"
  /\ UNCHANGED <<iteration, logFile, todoFile, result, scriptN, replies,
                 vcs, vcsCalls>>
  /\ UNCHANGED <<calls, pathVars, validateVars, todoVars, ending, args,
                 shown, prompt, stdins, authVars, race>>

SIGINT ==
  /\ (pc \in {"main", "configure", "validate", "confirm", "start", "loop",
     "agent", "commit", "sleep"})
  /\ Handled(onSIGINT(shuttingDown, procStatus, currentProc))

SIGTERM ==
  LET onSIGTERM(flag, status, proc) ==
        LET c == cleanupSubprocess(status, proc)
        IN  [flag |-> setShuttingDown(flag), status |-> c.status,
             kills |-> c.kills, currentProc |-> c.currentProc,
             notices |-> <<>>, exitCode |-> 0]
  IN  /\ (pc \in {"main", "configure", "validate", "confirm", "start", "loop",
         "agent", "commit", "sleep"})
      /\ Handled(onSIGTERM(shuttingDown, procStatus, currentProc))

----------------------------------------------------------------------------
(* The run of cralph                                                       *)

\* the variables of the unit tests, when no unit test runs
NoConfig == [none |-> TRUE]
\* validateConfig has not been called
NotValidated == [none |-> TRUE]
\* main.run has not ended
NotEnded == [none |-> TRUE]

\* no call of checkClaudeAuth is followed
NoCache == [kind |-> "absent"]

\* no auxiliary agent call is in progress
NoRace == [op |-> "none"]

CliIdle ==
  /\ notices = <<>>
  /\ ending = NotEnded
  /\ args = [none |-> TRUE]
  /\ killCalls = <<>>
  /\ shown = <<>>

Init ==
  /\ pc = "start"
  /\ iteration = 0
  /\ logFile \in {NoFile, <<"Ralph Session", <<"Iteration ", 1, " starting">>,
     <<"o", "l", "d">>>>}
  /\ todoFile \in RunnerTodos
  /\ result = NoResult
  /\ currentProc = null
  /\ shuttingDown = FALSE
  /\ procStatus = <<>>
  /\ procExit = NotExited
  /\ scriptN \in 0..MaxN
  /\ replies = <<>>
  /\ vcs \in VcsModes
  /\ vcsCalls = <<>>
  /\ prompt = <<>>
  /\ stdins = <<>>
  /\ CliIdle
  /\ (/\ authCache = NoCache /\ clock = 0 /\ authCalls = <<>>)
  /\ (race = NoRace)
  /\ calls = <<>>
  /\ cwd = <<>>
  /\ loaded = NoConfig
  /\ config = [refs |-> << <<"/", "t", "/", ".", "r", "a", "l", "p", "h", "/",
     "r", "e", "f", "s">> >>, output |-> <<"/", "t">>]
  /\ stored = NoConfig
  /\ reloaded = NoConfig
  /\ fs = {}
  /\ validation = NotValidated
  /\ todo0 = NoFile
  /\ prompted = <<>>

Next ==
  \/ initRunner
  \/ runIterationSpawn
  \/ agentExits
  \/ runIterationCollect
  \/ runCommit
  \/ runSleep
  \/ SIGINT
  \/ SIGTERM

Spec == Init /\ [][Next]_vars

----------------------------------------------------------------------------
(* Properties of the runner loop                                           *)

LastReply == replies[Len(replies)]

\* C1: with an agent that answers without the sentinel N times and with it
\* on invocation N+1, run() never spawns more than N+1 agent subprocesses
\* and returns after exactly N+1 iterations.
C1_LoopTermination ==
  /\ Len(procStatus) <= scriptN + 1
  /\ iteration <= scriptN + 1
  /\ pc = "done" => /\ iteration = scriptN + 1
                    /\ Len(procStatus) = scriptN + 1
                    /\ Len(replies) = scriptN + 1

\* run() has returned after three iterations, the sentinel came on the third
C1_Witness ==
  /\ pc = "done"
  /\ scriptN = 2
  /\ iteration = 3
  /\ ~replies[1].sentinel /\ ~replies[2].sentinel /\ replies[3].sentinel

\* C2: an iteration that exits non-zero without the sentinel never ends
\* run(): run() neither rejects nor returns on it, and once run() has
\* returned, an iteration followed every such failure.
C2_FaultTolerance ==
  /\ pc # "failed"
  /\ \A k \in 1..Len(replies) :
       (replies[k].exitCode # 0 /\ ~replies[k].sentinel) =>
         /\ (k = Len(replies) => pc \notin {"start", "done", "failed"})
         /\ (pc = "done" => iteration > k)

\* iteration 1 exited non-zero, iteration 2 gave the sentinel, run() returned
C2_Witness ==
  /\ pc = "done"
  /\ Len(replies) = 2
  /\ replies[1].exitCode # 0 /\ ~replies[1].sentinel
  /\ replies[2].sentinel
  /\ iteration = 2

\* C3: whatever git does, failing on every call included, tryCommitProgress
\* never raises to run(), and after the commit step of the first iteration
\* whose output holds the sentinel run() has returned.
C3_CommitIsolation ==
  /\ pc # "failed"
  /\ (/\ vcs \in {"nothing", "norepo", "nospawn"}
      /\ Len(replies) > 0
      /\ LastReply.sentinel
      /\ pc \notin {"commit", "exited"}) =>
        /\ pc = "done"
        /\ iteration = scriptN + 1

\* run() has returned although git could never be spawned in two iterations
C3_Witness ==
  /\ pc = "done"
  /\ vcs = "nospawn"
  /\ iteration = 2
  /\ vcsCalls = <<>>
  /\ logFile[Len(logFile)] = <<"Commit failed: ", "spawn git">>

\* C4: isComplete of an iteration is true exactly when stdout followed by
\* stderr holds the sentinel, whatever the exit code; a text that differs
\* from the sentinel in case or in inner white space does not count.
C4_CompletionDetection ==
  result # NoResult =>
    /\ result.isComplete = LastReply.sentinel
    /\ result.output = LastReply.stdout \o LastReply.stderr
    /\ result.exitCode = LastReply.exitCode

\* a near miss exiting 0 was not taken for the sentinel, and a sentinel split
\* over stdout and stderr was taken for it
C4_Witness ==
  /\ Len(replies) = 2
  /\ replies[1].stdout = TxtLowerCase /\ replies[1].exitCode = 0
  /\ replies[2].stdout = TxtHalf1 /\ replies[2].stderr = TxtHalf2
  /\ result.isComplete
  /\ pc = "done"

----------------------------------------------------------------------------
(* The unit test of state.ts: any sequence of calls of its functions       *)

\* the run of cralph, when only a unit test runs
RunnerIdle ==
  /\ pc = "test"
  /\ iteration = 0
  /\ logFile = NoFile
  /\ todoFile = NoFile
  /\ result = NoResult
  /\ procExit = NotExited
  /\ prompt = <<>>
  /\ stdins = <<>>
  /\ scriptN = 0
  /\ replies = <<>>
  /\ vcs = "works"
  /\ vcsCalls = <<>>

NoArg == JsValue("none", "none")

\* one call of the test: the function, its argument, what it returned,
\* the message it threw, and the state before and after it
Call(op, arg, ret, threw) ==
  [op |-> op, arg |-> arg, ret |-> ret, threw |-> threw,
   before |-> shuttingDown, after |-> shuttingDown',
   procBefore |-> currentProc, procAfter |-> currentProc']

testSetShuttingDown ==
  /\ Len(calls) < MaxCalls
  /\ UNCHANGED <<runnerVars, pathVars, validateVars, todoVars, cliVars, authVars, race>>
  /\ shuttingDown' = setShuttingDown(shuttingDown)
  /\ calls' = Append(calls, Call("setShuttingDown", NoArg, FALSE, ""))

testIsShuttingDown ==
  /\ Len(calls) < MaxCalls
  /\ UNCHANGED <<shuttingDown, runnerVars, pathVars, validateVars, todoVars,
                 cliVars, authVars, race>>
  /\ calls' = Append(calls, Call("isShuttingDown", NoArg,
                                 isShuttingDown(shuttingDown), ""))

testResetShutdownState ==
  /\ Len(calls) < MaxCalls
  /\ UNCHANGED <<runnerVars, pathVars, validateVars, todoVars, cliVars, authVars, race>>
  /\ shuttingDown' = resetShutdownState(shuttingDown)
  /\ calls' = Append(calls, Call("resetShutdownState", NoArg, FALSE, ""))

testThrowIfCancelled ==
  /\ Len(calls) < MaxCalls
  /\ UNCHANGED <<shuttingDown, runnerVars, pathVars, validateVars, todoVars,
                 cliVars, authVars, race>>
  /\ \E res \in { JsValue("symbol", "Symbol(cancel)"), JsValue("null", "null"),
     JsValue("undefined", "undefined"), JsValue("boolean", "false"),
     JsValue("string", "value"), JsValue("object", "{key: value}") } :
       calls' = Append(calls, Call("throwIfCancelled", res, FALSE,
                                   throwIfCancelled(res, shuttingDown)))

InitState ==
  /\ RunnerIdle
  /\ shuttingDown = FALSE
  /\ currentProc \in {null, 1}
  /\ procStatus = IF currentProc = null THEN <<>> ELSE <<"running">>
  /\ CliIdle
  /\ (/\ authCache = NoCache /\ clock = 0 /\ authCalls = <<>>)
  /\ (race = NoRace)
  /\ calls = <<>>
  /\ cwd = <<>>
  /\ loaded = NoConfig
  /\ config = NoConfig
  /\ stored = NoConfig
  /\ reloaded = NoConfig
  /\ fs = {}
  /\ validation = NotValidated
  /\ todo0 = NoFile
  /\ prompted = <<>>

NextState ==
  \/ testSetShuttingDown
  \/ testIsShuttingDown
  \/ testResetShutdownState
  \/ testThrowIfCancelled

SpecState == InitState /\ [][NextState]_vars

\* the setShuttingDown calls of a history since its last reset
RECURSIVE SetsSinceReset(_)
SetsSinceReset(h) ==
  IF h = <<>> THEN 0
  ELSE LET c == h[Len(h)]
           rest == SubSeq(h, 1, Len(h) - 1)
       IN  IF c.op = "resetShutdownState" THEN 0
           ELSE IF c.op = "setShuttingDown" THEN SetsSinceReset(rest) + 1
           ELSE SetsSinceReset(rest)

\* C5: the flag is false at the start and after a reset, and true after one
\* or more setShuttingDown calls, whatever other calls come in between;
\* isShuttingDown returns the flag.
C5_CancellationIdempotence ==
  /\ shuttingDown = (SetsSinceReset(calls) >= 1)
  /\ \A i \in 1..Len(calls) :
       calls[i].op = "isShuttingDown" =>
         calls[i].ret = (SetsSinceReset(SubSeq(calls, 1, i - 1)) >= 1)

\* two sets, the flag read as true, then a reset: the flag is false again
C5_Witness ==
  /\ Len(calls) = 4
  /\ calls[1].op = "setShuttingDown"
  /\ calls[2].op = "setShuttingDown"
  /\ calls[3].op = "isShuttingDown" /\ calls[3].ret = TRUE
  /\ calls[4].op = "resetShutdownState"
  /\ shuttingDown = FALSE

\* C6: throwIfCancelled throws "Selection cancelled" exactly when the result
\* is a symbol or the flag is set; otherwise it returns, and it never
\* changes the flag or the tracked subprocess.
C6_ThrowIfCancelled ==
  \A i \in 1..Len(calls) :
    calls[i].op = "throwIfCancelled" =>
      LET c == calls[i]
      IN  /\ c.threw \in {"", "Selection cancelled"}
          /\ (c.threw = "Selection cancelled") <=>
               (c.arg.kind = "symbol" \/ c.before)
          /\ c.after = c.before
          /\ c.procAfter = c.procBefore

\* null passed with the flag unset returned; after setShuttingDown a plain
\* string threw; a symbol threw with the flag unset
C6_Witness ==
  /\ Len(calls) = 4
  /\ calls[1].op = "throwIfCancelled" /\ calls[1].arg.kind = "null"
  /\ calls[1].threw = "" /\ ~calls[1].before
  /\ calls[2].op = "throwIfCancelled" /\ calls[2].arg.kind = "symbol"
  /\ calls[2].threw = "Selection cancelled" /\ ~calls[2].before
  /\ calls[3].op = "setShuttingDown"
  /\ calls[4].op = "throwIfCancelled" /\ calls[4].arg.kind = "string"
  /\ calls[4].threw = "Selection cancelled"

----------------------------------------------------------------------------
(* Path configuration: resolvePathsConfig, toRelativePath and the save of  *)
(* .ralph/paths.json                                                       *)

\* one segment of a path handed to the normalisation: "" and "." are
\* dropped, ".." removes the segment before it (and nothing at the root)
pushSegment(segs, seg) ==
  IF seg = <<>> \/ seg = <<".">> THEN segs
  ELSE IF seg = <<".", ".">>
       THEN IF segs = <<>> THEN segs ELSE SubSeq(segs, 1, Len(segs) - 1)
  ELSE Append(segs, seg)

\* the segments of a path text, read left to right and split at "/"
RECURSIVE normalizeString(_, _, _)
normalizeString(path, segs, seg) ==
  IF path = <<>> THEN pushSegment(segs, seg)
  ELSE IF Head(path) = "/"
       THEN normalizeString(Tail(path), pushSegment(segs, seg), <<>>)
  ELSE normalizeString(Tail(path), segs, Append(seg, Head(path)))

RECURSIVE joinSegments(_)
joinSegments(segs) ==
  IF segs = <<>> THEN <<>>
  ELSE <<"/">> \o Head(segs) \o joinSegments(Tail(segs))

\* path.resolve(from, to) of node:path (posix) with an absolute from: an
\* absolute to replaces from, an empty to is skipped, and the result is
\* normalised, without a trailing slash, "/" for the root
resolve(from, to) ==
  LET joined == IF to = <<>> THEN from
                ELSE IF Head(to) = "/" THEN to
                ELSE from \o <<"/">> \o to
      normal == joinSegments(normalizeString(joined, <<>>, <<>>))
  IN  IF normal = <<>> THEN <<"/">> ELSE normal

resolvePathsConfig(file, dir) ==
  [refs |-> [i \in 1..Len(file.refs) |-> resolve(dir, file.refs[i])],
   output |-> resolve(dir, file.output)]

toRelativePath_noIdentity(absolutePath, dir) ==
  <<".", "/">> \o replace(absolutePath, dir \o <<"/">>, <<>>)

toRelativePath(absolutePath, dir) ==
  IF absolutePath = dir THEN <<".">>
  ELSE <<".", "/">> \o replace(absolutePath, dir \o <<"/">>, <<>>)

\* every text over PathChars of at most n characters
RECURSIVE PathTexts(_)
PathTexts(n) ==
  IF n = 0 THEN {<<>>}
  ELSE LET shorter == PathTexts(n - 1)
       IN  shorter \cup
           { Append(t, c) : t \in { u \in shorter : Len(u) = n - 1 },
                            c \in {"/", ".", "a"} }

\* config = resolvePathsConfig(loaded, cwd)
loadConfig ==
  /\ loaded # NoConfig
  /\ config = NoConfig
  /\ config' = resolvePathsConfig(loaded, cwd)
  /\ UNCHANGED <<cwd, loaded, stored, reloaded>>
  /\ UNCHANGED <<runnerVars, shuttingDown, calls, validateVars, todoVars,
                 cliVars, authVars, race>>

\* the save of .ralph/paths.json: every path through toRelativePath
saveConfig ==
  /\ config # NoConfig
  /\ stored = NoConfig
  /\ stored' =
       [refs |-> [i \in 1..Len(config.refs) |->
                    toRelativePath(config.refs[i], cwd)],
        output |-> toRelativePath(config.output, cwd)]
  /\ UNCHANGED <<cwd, loaded, config, reloaded>>
  /\ UNCHANGED <<runnerVars, shuttingDown, calls, validateVars, todoVars,
                 cliVars, authVars, race>>

\* a later run in the same directory loads the saved file
reloadConfig ==
  /\ stored # NoConfig
  /\ reloaded = NoConfig
  /\ reloaded' = resolvePathsConfig(stored, cwd)
  /\ UNCHANGED <<cwd, loaded, config, stored>>
  /\ UNCHANGED <<runnerVars, shuttingDown, calls, validateVars, todoVars,
                 cliVars, authVars, race>>

StateIdle ==
  /\ shuttingDown = FALSE
  /\ currentProc = null
  /\ procStatus = <<>>
  /\ calls = <<>>

ValidateIdle == fs = {} /\ validation = NotValidated

TodoIdle == todo0 = NoFile /\ prompted = <<>>

InitPaths ==
  /\ RunnerIdle
  /\ StateIdle
  /\ CliIdle
  /\ (/\ authCache = NoCache /\ clock = 0 /\ authCalls = <<>>)
  /\ (race = NoRace)
  /\ ValidateIdle
  /\ TodoIdle
  /\ cwd \in { <<"/">>, <<"/", "a">>, <<"/", "a", "/", "a">> }
  /\ \E refs \in (UNION { [1..n -> (PathTexts(MaxPathLen) \cup { <<".", "/",
     "a", "/", "b">>, <<".", ".", "/", "a", "/", "b">>, <<"a", "/", ".", ".",
     "/", "b", "/">>, <<"/", "a", "/", "a", "/", "b">>, <<"/", "b">>, <<"/",
     "b", "/", "a", "/", "c">> })] : n \in 0..MaxRefs }), output \in { <<".">>,
     <<".", "/", "a">>, <<"/", "a",
     "/", "b">> } :
       loaded = [refs |-> refs, output |-> output]
  /\ config = NoConfig
  /\ stored = NoConfig
  /\ reloaded = NoConfig

NextPaths ==
  \/ loadConfig
  \/ saveConfig
  \/ reloadConfig

SpecPaths == InitPaths /\ [][NextPaths]_vars

\* the paths of a configuration, refs first and output last
PathsOf(c) == Append(c.refs, c.output)

\* C7: a resolved configuration saved with toRelativePath and resolved again
\* against the same working directory is the resolved configuration again,
\* for every path at or below the working directory.
C7_RoundTrip ==
  LET Under(p, w) ==
        \/ p = w
        \/ startsWith(p, IF w = <<"/">> THEN w ELSE w \o <<"/">>)
  IN  reloaded # NoConfig =>
        /\ Len(reloaded.refs) = Len(config.refs)
        /\ \A i \in 1..Len(PathsOf(config)) :
             Under(PathsOf(config)[i], cwd) =>
               PathsOf(reloaded)[i] = PathsOf(config)[i]
        /\ (\A i \in 1..Len(PathsOf(config)) : Under(PathsOf(config)[i], cwd))
             => reloaded = config

\* in /a, refs "a/." and output ".": resolved to /a/a and /a, stored as
\* "./a" and ".", and resolved back to the same
C7_Witness ==
  /\ reloaded # NoConfig
  /\ cwd = <<"/", "a">>
  /\ loaded.refs = << <<"a", "/", ".">> >>
  /\ config.refs = << <<"/", "a", "/", "a">> >>
  /\ config.output = cwd
  /\ stored.refs = << <<".", "/", "a">> >>
  /\ stored.output = <<".">>
  /\ reloaded = config

\* C8: a saved path is "." exactly when the absolute path is the working
\* directory, and otherwise "./" followed by the absolute path without the
\* working directory in front of it.
C8_ToRelativePath ==
  stored # NoConfig =>
    \A i \in 1..Len(PathsOf(config)) :
      LET abs == PathsOf(config)[i]
          rel == PathsOf(stored)[i]
      IN  /\ (rel = <<".">>) <=> (abs = cwd)
          /\ abs # cwd =>
               rel = <<".", "/">> \o (IF startsWith(abs, (cwd \o <<"/">>)) THEN
                   SubSeq(abs, Len((cwd \o <<"/">>)) + 1, Len(abs)) ELSE abs)

----------------------------------------------------------------------------
(* validateConfig                                                          *)

TxtRefsPathDoesNotExist ==
  <<"R", "e", "f", "s", " ", "p", "a", "t", "h", " ", "d", "o", "e", "s",
    " ", "n", "o", "t", " ", "e", "x", "i", "s", "t", ":", " ">>

\* the loop over config.refs; stats are the paths handed to stat so far
RECURSIVE validateRefs(_, _, _)
validateRefs(refs, disk, stats) ==
  IF refs = <<>>
  THEN [threw |-> FALSE, message |-> <<>>, stats |-> stats]
  ELSE IF (disk[(Head(refs))] = "ENOENT")
       THEN [threw |-> TRUE,
             message |-> (TxtRefsPathDoesNotExist \o (Head(refs))),
             stats |-> Append(stats, Head(refs))]
  ELSE validateRefs(Tail(refs), disk, Append(stats, Head(refs)))

\* a validation that also requires the output directory
validateConfig_output(c, disk) ==
  validateRefs(Append(c.refs, c.output), disk, <<>>)

validateConfig(c, disk) == validateRefs(c.refs, disk, <<>>)

\* await validateConfig(config): the outcome with the disk before and after
validate ==
  /\ config # NoConfig
  /\ validation = NotValidated
  /\ fs' = fs
  /\ validation' = [outcome |-> validateConfig(config, fs),
                    before |-> fs, after |-> fs']
  /\ UNCHANGED <<runnerVars, shuttingDown, calls, pathVars, todoVars, cliVars, authVars, race>>

InitValidate ==
  /\ RunnerIdle
  /\ StateIdle
  /\ CliIdle
  /\ (/\ authCache = NoCache /\ clock = 0 /\ authCalls = <<>>)
  /\ (race = NoRace)
  /\ TodoIdle
  /\ cwd = <<"/", "a">>
  /\ loaded = NoConfig
  /\ stored = NoConfig
  /\ reloaded = NoConfig
  /\ \E n \in 0..MaxValidateRefs : \E refs \in [1..n -> { <<"/", "a">>, <<"/",
     "a", "/", "a">>, <<"/", "b">> }] :
       config = [refs |-> refs, output |-> <<"/", "a", "/", "o">>]
  /\ fs \in [{ <<"/", "a">>, <<"/", "a", "/", "a">>, <<"/", "b">> } \cup
     {<<"/", "a", "/", "o">>} -> {"directory",
     "file", "ENOENT"}]
  /\ validation = NotValidated

NextValidate == validate

SpecValidate == InitValidate /\ [][NextValidate]_vars

\* is the i-th ref of the configuration missing on the disk
MissingRef(i) == fs[config.refs[i]] = "ENOENT"

\* C9: validateConfig throws exactly when some ref is missing, names the
\* first missing ref in sequence order and stops there; with every ref
\* present it returns whatever is at the output path, which it never looks
\* at; and the disk is left as it was.
C9_ValidateConfig ==
  validation # NotValidated =>
    LET v == validation.outcome
        n == Len(config.refs)
    IN  /\ v.threw <=> \E i \in 1..n : MissingRef(i)
        /\ \A i \in 1..n :
             (MissingRef(i) /\ \A j \in 1..(i - 1) : ~MissingRef(j)) =>
               /\ v.message = TxtRefsPathDoesNotExist \o config.refs[i]
               /\ v.stats = SubSeq(config.refs, 1, i)
        /\ ~v.threw => v.stats = config.refs
        /\ \A k \in 1..Len(v.stats) : v.stats[k] # config.output
        /\ validation.after = validation.before
        /\ fs = validation.before

\* /a exists, /b and /a/a are missing, and so is the output directory: the
\* error names /b, the first of the two missing refs
C9_Witness ==
  /\ validation # NotValidated
  /\ config.refs = << <<"/", "a">>, <<"/", "b">>, <<"/", "a", "/", "a">> >>
  /\ fs[<<"/", "a">>] = "directory"
  /\ fs[<<"/", "b">>] = "ENOENT"
  /\ fs[<<"/", "a", "/", "a">>] = "ENOENT"
  /\ fs[config.output] = "ENOENT"
  /\ validation.outcome.threw
  /\ validation.outcome.message =
       TxtRefsPathDoesNotExist \o <<"/", "b">>

----------------------------------------------------------------------------
(* The TODO at the start of a run, in the runner that asks about a reset   *)

INITIAL_TODO_CONTENT_tasks ==
  <<"#", " ", "T", "a", "s", "k", "s", "\n", "\n", "-", " ", "[", " ", "]",
    " ", "T", "a", "s", "k", " ", "1", "\n", "-", " ", "[", " ", "]", " ",
    "T", "a", "s", "k", " ", "2", "\n", "\n", "#", " ", "N", "o", "t", "e",
    "s", "\n", "\n", "_", "N", "o", "n", "e", " ", "y", "e", "t", "_", "\n">>

\* a comparison that ignores all whitespace, not only that at the ends
isTodoClean_squeezed(file) ==
  IF file = NoFile THEN TRUE
  ELSE SelectSeq(file, LAMBDA c : ~IsWhiteSpace(c)) =
       SelectSeq(INITIAL_TODO_CONTENT_tasks, LAMBDA c : ~IsWhiteSpace(c))

isTodoClean(file) ==
  IF file = NoFile THEN TRUE
  ELSE trim(file) = trim(INITIAL_TODO_CONTENT_tasks)

\* the template with at most n characters added anywhere
RECURSIVE Edited(_)
Edited(n) ==
  IF n = 0 THEN {[i \in 1..Len(INITIAL_TODO_CONTENT_tasks) |-> [c |->
      INITIAL_TODO_CONTENT_tasks[i], added |-> FALSE]]}
  ELSE LET fewer == Edited(n - 1)
       IN  fewer \cup
           { (SubSeq(d, 1, k) \o <<[c |-> ch, added |-> TRUE]>> \o SubSeq(d, k
               + 1, Len(d))) :
               d \in { e \in fewer : Len(e) =
                         Len(INITIAL_TODO_CONTENT_tasks) + n - 1 },
               k \in 0..(Len(INITIAL_TODO_CONTENT_tasks) + n - 1),
               ch \in {" ", "\n", "x"} }

\* what the confirm prompt resolves to: yes, no, or the cancel symbol
ConfirmResults ==
  { JsValue("boolean", "true"), JsValue("boolean", "false"),
    JsValue("symbol", "Symbol(cancel)") }

\* one call of initRunner as the run saw it
RunRecord(existed, asked, response, threw) ==
  [existed |-> existed, asked |-> asked, response |-> response,
   threw |-> threw]

\* initRunner of the runner with the reset prompt, called by two runs of
\* cralph on the same output directory, one after the other
initRunner_tasks ==
  /\ pc \in {"first", "second"}
  /\ pc' = IF pc = "first" THEN "second" ELSE "end"
  /\ iteration' = 0
  /\ logFile' = logHeader
  /\ IF todoFile = NoFile
     THEN /\ todoFile' = INITIAL_TODO_CONTENT_tasks
          /\ prompted' = Append(prompted, RunRecord(FALSE, FALSE, NoArg, ""))
     ELSE IF ~isTodoClean(todoFile)
     THEN \E response \in ConfirmResults :
            LET threw == throwIfCancelled(response, shuttingDown)
            IN  /\ todoFile' =
                     IF threw = "" /\ response = JsValue("boolean", "true")
                     THEN INITIAL_TODO_CONTENT_tasks
                     ELSE todoFile
                /\ prompted' =
                     Append(prompted, RunRecord(TRUE, TRUE, response, threw))
     ELSE /\ todoFile' = todoFile
          /\ prompted' = Append(prompted, RunRecord(TRUE, FALSE, NoArg, ""))
  /\ UNCHANGED <<result, currentProc, procStatus, procExit, scriptN, replies,
                 vcs, vcsCalls, todo0, prompt, stdins>>
  /\ UNCHANGED <<shuttingDown, calls, pathVars, validateVars, cliVars, authVars, race>>

InitTodo ==
  /\ pc = "first"
  /\ iteration = 0
  /\ logFile = NoFile
  /\ result = NoResult
  /\ procExit = NotExited
  /\ prompt = <<>>
  /\ stdins = <<>>
  /\ scriptN = 0
  /\ replies = <<>>
  /\ vcs = "works"
  /\ vcsCalls = <<>>
  /\ StateIdle
  /\ CliIdle
  /\ (/\ authCache = NoCache /\ clock = 0 /\ authCalls = <<>>)
  /\ (race = NoRace)
  /\ ValidateIdle
  /\ cwd = <<>>
  /\ loaded = NoConfig
  /\ config = NoConfig
  /\ stored = NoConfig
  /\ reloaded = NoConfig
  /\ todo0 \in {NoFile} \cup Edited(MaxAdded)
  /\ todoFile = IF todo0 = NoFile THEN NoFile ELSE [i \in 1..Len(todo0) |->
     todo0[i].c]
  /\ prompted = <<>>

NextTodo == initRunner_tasks

SpecTodo == InitTodo /\ [][NextTodo]_vars

\* C10: a call of initRunner finds the TODO dirty, and asks about a reset,
\* exactly when no earlier call created or reset it and it holds an added
\* character that trimming does not remove; a created or reset TODO is the
\* template and is found clean by the next call.
C10_CleanDirty ==
  LET WroteTemplate(k) ==
        \/ ~prompted[k].existed
        \/ /\ prompted[k].asked
           /\ prompted[k].response = JsValue("boolean", "true")
           /\ prompted[k].threw = ""
      Inked(doc) ==
        \E i \in 1..Len(doc) :
          /\ doc[i].added
          /\ \/ ~IsWhiteSpace(doc[i].c)
             \/ /\ \E j \in 1..(i - 1) : ~IsWhiteSpace(doc[j].c)
                /\ \E j \in (i + 1)..Len(doc) : ~IsWhiteSpace(doc[j].c)
  IN  /\ \A k \in 1..Len(prompted) :
           prompted[k].asked <=>
             /\ \A j \in 1..(k - 1) : ~WroteTemplate(j)
             /\ todo0 # NoFile
             /\ Inked(todo0)
      /\ (\E k \in 1..Len(prompted) : WroteTemplate(k)) =>
           todoFile = INITIAL_TODO_CONTENT_tasks

\* a blank added inside "# Tasks": the first run asks and resets, the
\* second run finds the TODO clean
C10_Witness ==
  /\ pc = "end"
  /\ todo0 # NoFile
  /\ \E i \in 2..(Len(todo0) - 1) :
       /\ todo0[i].added
       /\ todo0[i].c = " "
       /\ todo0[i - 1].c = "#"
  /\ prompted[1].asked
  /\ prompted[1].response = JsValue("boolean", "true")
  /\ prompted[2].existed
  /\ ~prompted[2].asked
  /\ todoFile = INITIAL_TODO_CONTENT_tasks

----------------------------------------------------------------------------
(* The signal handlers during a run                                        *)

\* C12: the SIGINT handler, run with the flag unset, sets the flag, kills
\* the tracked subprocess if it is still running, clears the handle, writes
\* "Cancelled." and exits with code 0; run with the flag already set, it
\* exits with code 1 at once and touches nothing.
C12_Interrupt ==
  /\ [](LET again == onSIGINT(TRUE, procStatus, currentProc)
        IN  /\ again.exitCode = 1
            /\ again.status = procStatus
            /\ again.kills = <<>>
            /\ again.notices = <<>>)
  /\ [][SIGINT =>
          IF ~shuttingDown
          THEN /\ shuttingDown'
               /\ currentProc' = null
               /\ currentProc # null =>
                    /\ killCalls' = Append(killCalls,
                                           [proc |-> currentProc,
                                            was |-> procStatus[currentProc]])
                    /\ procStatus[currentProc] = "running" =>
                         procStatus'[currentProc] = "killed"
               /\ currentProc = null =>
                    killCalls' = killCalls /\ procStatus' = procStatus
               /\ notices' = Append(notices, "Cancelled.")
               /\ procExit' = 0
               /\ pc' = "exited"
          ELSE /\ procExit' = 1
               /\ pc' = "exited"
               /\ procStatus' = procStatus
               /\ notices' = notices]_vars

\* the interrupt came while the agent of the second iteration was running:
\* the agent was killed and cralph exited with code 0
C12_Witness ==
  /\ pc = "exited"
  /\ procExit = 0
  /\ shuttingDown
  /\ notices = <<"Cancelled.">>
  /\ Len(procStatus) = 2
  /\ procStatus[2] = "killed"
  /\ killCalls = <<[proc |-> 2, was |-> "running"]>>
  /\ currentProc = null

----------------------------------------------------------------------------
(* Order of the steps of the loop                                          *)

\* the lines of the log after the header
LogLines == 2..Len(logFile)

IsStartLine(l) ==
  Len(l) = 3 /\ l[1] = "Iteration " /\ l[3] = " starting"

IsCommitLine(l) ==
  /\ Len(l) = 2
  /\ l[1] \in {"Committed: ", "No changes to commit for iteration ",
               "Commit failed: "}

IsOutputLine(l) == ~IsStartLine(l) /\ ~IsCommitLine(l)

\* the commit attempts made so far: each one leaves one line in the log
CommitAttempts == Cardinality({ i \in LogLines : IsCommitLine(logFile[i]) })

OutputsLogged == Cardinality({ i \in LogLines : IsOutputLine(logFile[i]) })

\* C13: the output of an iteration is in the log before the commit of that
\* iteration is attempted, and that commit attempt is over before the next
\* agent is spawned: by the time agent k+1 exists, k outputs are logged and
\* k commits were attempted, and no agent runs during the commit step.
C13_IterationOrdering ==
  pc # "start" =>
    /\ \A i \in LogLines :
         /\ IsCommitLine(logFile[i]) =>
              i > 2 /\ IsOutputLine(logFile[i - 1])
         /\ IsStartLine(logFile[i]) =>
              i = 2 \/ IsCommitLine(logFile[i - 1])
    /\ CommitAttempts <= OutputsLogged
    /\ OutputsLogged <= CommitAttempts + 1
    /\ Len(procStatus) > 0 =>
         /\ CommitAttempts >= Len(procStatus) - 1
         /\ OutputsLogged >= Len(procStatus) - 1
    /\ (\E k \in 1..Len(procStatus) : procStatus[k] = "running") =>
         /\ CommitAttempts = Len(procStatus) - 1
         /\ OutputsLogged = Len(procStatus) - 1
    /\ pc = "commit" =>
         /\ \A k \in 1..Len(procStatus) : procStatus[k] # "running"
         /\ OutputsLogged = iteration
         /\ CommitAttempts = iteration - 1

\* the agent of the second iteration is running: the output of the first
\* is in the log, followed by its commit line and the second start line
C13_Witness ==
  /\ pc = "agent"
  /\ Len(procStatus) = 2
  /\ procStatus[2] = "running"
  /\ Len(logFile) = 5
  /\ IsOutputLine(logFile[3])
  /\ IsCommitLine(logFile[4])
  /\ IsStartLine(logFile[5])

\* C14: at most one agent subprocess is alive: every agent but the last
\* spawned has exited and had its output read before the next was spawned.
C14_SingleSubprocess ==
  /\ Cardinality({ k \in 1..Len(procStatus) : procStatus[k] = "running" })
       <= 1
  /\ \A k \in 1..(Len(procStatus) - 1) :
       /\ procStatus[k] = "exited"
       /\ k <= Len(replies)
  /\ Len(procStatus) <= Len(replies) + 1

\* the third agent is running, the two before it have exited
C14_Witness ==
  /\ Len(procStatus) = 3
  /\ procStatus[1] = "exited"
  /\ procStatus[2] = "exited"
  /\ procStatus[3] = "running"
  /\ Len(replies) = 2

----------------------------------------------------------------------------
(* The tracked subprocess and cancellation                                 *)

\* C15 as stated: the handle is non-null only while its subprocess is
\* running, so no kill() is ever called on a subprocess that has exited,
\* and a handler leaves the handle null.
C15_HandleOnlyWhileRunning ==
  /\ currentProc # null => procStatus[currentProc] = "running"
  /\ \A i \in 1..Len(killCalls) : killCalls[i].was = "running"
  /\ shuttingDown => currentProc = null

\* C15, amended: the handle is non-null only from the spawn of an agent
\* until run() resumes after that agent's exit, and it is cleared before the
\* output is logged; it refers to the agent of the current iteration, never
\* to an earlier one.  A kill() may reach the agent that has just exited,
\* where it changes nothing, and a handler leaves the handle null.
C15_HandleUntilCollected ==
  /\ currentProc # null =>
       /\ pc = "agent"
       /\ currentProc = Len(procStatus)
       /\ procStatus[currentProc] \in {"running", "exited"}
  /\ pc \in {"loop", "commit", "sleep", "done"} => currentProc = null
  /\ Len(killCalls) <= 1
  /\ \A i \in 1..Len(killCalls) :
       /\ killCalls[i].proc = Len(procStatus)
       /\ killCalls[i].was \in {"running", "exited"}
       /\ procStatus[killCalls[i].proc] =
            IF killCalls[i].was = "running" THEN "killed" ELSE "exited"
  /\ shuttingDown => currentProc = null

\* the interrupt came after the second agent had exited and before run()
\* resumed: kill() was called on the exited agent
C15_Witness ==
  /\ pc = "exited"
  /\ Len(procStatus) = 2
  /\ killCalls = <<[proc |-> 2, was |-> "exited"]>>
  /\ procStatus[2] = "exited"
  /\ currentProc = null

\* C16: once a signal handler has run, cralph has exited: no agent is
\* spawned, no commit is attempted and nothing is logged after it; the
\* handler itself leaves the log, the TODO, the counter, the commits and the
\* outputs read so far as they are.
C16_CancellationStopsLoop ==
  /\ [](shuttingDown => pc = "exited")
  /\ [][shuttingDown =>
          /\ Len(procStatus') = Len(procStatus)
          /\ vcsCalls' = vcsCalls
          /\ logFile' = logFile]_vars
  /\ [][(~shuttingDown /\ shuttingDown') =>
          /\ logFile' = logFile
          /\ todoFile' = todoFile
          /\ iteration' = iteration
          /\ vcsCalls' = vcsCalls
          /\ replies' = replies
          /\ result' = result]_vars

\* cancelled during the second iteration: its start line stays in the log
\* after the commit of the first, and no second commit was made
C16_Witness ==
  /\ pc = "exited"
  /\ shuttingDown
  /\ iteration = 2
  /\ vcs = "works"
  /\ Len(vcsCalls) = 2
  /\ Len(logFile) = 5
  /\ IsStartLine(logFile[5])
  /\ procStatus[2] = "killed"

----------------------------------------------------------------------------
(* The end of the loop, the commits, the log and the counter               *)

\* C17: run() returns only after an iteration whose output held the
\* sentinel; as long as no output held it and no signal came, run() has
\* neither returned nor failed, whatever the exit codes were, and the next
\* agent can always be spawned.
C17_UnboundedLoop ==
  /\ pc = "done" =>
       /\ Len(replies) = iteration
       /\ LastReply.sentinel
       /\ result.isComplete
       /\ \A k \in 1..(Len(replies) - 1) : ~replies[k].sentinel
  /\ ((\A k \in 1..Len(replies) : ~replies[k].sentinel) /\ pc # "exited") =>
       /\ pc \in {"start", "loop", "agent", "commit", "sleep"}
       /\ pc = "loop" => ENABLED runIterationSpawn
       /\ pc = "sleep" => ENABLED runSleep

\* two iterations without the sentinel, one of them failing, and run() is
\* about to spawn the third agent
C17_Witness ==
  /\ pc = "loop"
  /\ iteration = 2
  /\ Len(replies) = 2
  /\ ~replies[1].sentinel /\ replies[1].exitCode # 0
  /\ ~replies[2].sentinel /\ replies[2].exitCode = 0
  /\ ENABLED runIterationSpawn

\* the commit attempts made so far, told from the git command lines, or
\* from the log when git cannot be spawned
CommitsTried ==
  IF vcs = "nospawn"
  THEN Cardinality({ i \in LogLines :
                       /\ Len(logFile[i]) = 2
                       /\ logFile[i][1] = "Commit failed: " })
  ELSE Len(vcsCalls) \div 2

\* C18: after every iteration a commit is attempted, after the one that
\* gave the sentinel too; the attempt after iteration k is git add -A
\* followed by git commit with the message of iteration k.
C18_CommitEveryIteration ==
  /\ pc \in {"sleep", "done"} => CommitsTried = iteration
  /\ pc = "loop" => CommitsTried = iteration
  /\ pc \in {"agent", "commit"} => CommitsTried = iteration - 1
  /\ pc = "done" => LastReply.sentinel /\ CommitsTried = Len(replies)
  /\ Len(vcsCalls) % 2 = 0
  /\ \A k \in 1..(Len(vcsCalls) \div 2) :
       /\ vcsCalls[2 * k - 1] = <<"git", "add", "-A">>
       /\ vcsCalls[2 * k] = <<"git", "commit", "-m",
          <<"chore(ralph): iteration ", k, " progress">>, "--no-verify">>

\* run() has returned after two iterations and four git command lines, the
\* last one the commit of iteration 2
C18_Witness ==
  /\ pc = "done"
  /\ iteration = 2
  /\ vcs = "nothing"
  /\ Len(vcsCalls) = 4
  /\ vcsCalls[4] = <<"git", "commit", "-m", <<"chore(ralph): iteration ", 2,
     " progress">>, "--no-verify">>
  /\ replies[2].sentinel

\* C19: every step of a session keeps the log written so far as a prefix of
\* the log; once the session has written its header, the log is that
\* header followed by one block per iteration in the order of the
\* iterations: the start line of iteration k, the output captured in
\* iteration k, the commit line of iteration k.
C19_LogAppendOnly ==
  /\ [][pc # "start" => (Len(logFile) <= Len(logFile') /\ SubSeq(logFile', 1,
     Len(logFile)) = logFile)]_vars
  /\ []((pc \notin {"start", "exited"} \/ iteration > 0) =>
          /\ Len(logFile) >= 1
          /\ logFile[1] = "Ralph Session"
          /\ \A i \in LogLines :
               LET k == ((i - 2) \div 3) + 1
                   slot == (i - 2) % 3
                   IsCommitLineOf(line, n) ==
                     /\ Len(line) = 2
                     /\ \/ /\ line[1] = "Committed: "
                           /\ line[2] =
                                <<"chore(ralph): iteration ", n, " progress">>
                        \/ /\ line[1] = "No changes to commit for iteration "
                           /\ line[2] = n
                        \/ /\ line[1] = "Commit failed: "
                           /\ line[2] = "spawn git"
               IN  /\ k <= iteration
                   /\ slot = 0 =>
                        /\ IsStartLine(logFile[i])
                        /\ logFile[i][2] = k
                   /\ slot = 1 =>
                        /\ k <= Len(replies)
                        /\ logFile[i] =
                             replies[k].stdout \o replies[k].stderr
                   /\ slot = 2 => IsCommitLineOf(logFile[i], k)
          /\ pc \in {"loop", "sleep", "done"} =>
               Len(logFile) = 1 + 3 * iteration)

\* after two iterations the log is the header and the two blocks, the
\* second after the first
C19_Witness ==
  /\ pc = "done"
  /\ iteration = 2
  /\ vcs = "works"
  /\ Len(logFile) = 7
  /\ logFile[2] = <<"Iteration ", 1, " starting">>
  /\ logFile[4][1] = "Committed: "
  /\ logFile[5] = <<"Iteration ", 2, " starting">>
  /\ logFile[7][1] = "Committed: "

----------------------------------------------------------------------------
(* main.run of the cli: from the checks of the agent to the exit code      *)

TxtCancelled ==
  <<"c", "a", "n", "c", "e", "l", "l", "e", "d">>

\* join(cwd, ".ralph", "paths.json"), for a working directory below the root
pathsFilePath(dir) ==
  dir \o <<"/", ".", "r", "a", "l", "p", "h", "/", "p", "a", "t", "h", "s", ".",
    "j", "s", "o", "n">>

\* an error as thrown; kind records, by the place that throws it, what it
\* is: a cancellation by the user, a configuration error, another error
Error(kind, message) == [kind |-> kind, message |-> message]

SelectionCancelled == Error("cancel", <<"S", "e", "l", "e", "c", "t", "i", "o",
    "n", " ", "c", "a", "n", "c", "e", "l", "l", "e", "d">>)

\* loadPathsFile: the error it throws, if the file is not there
loadPathsFile(disk, filePath) ==
  IF disk[filePath] = "ENOENT"
  THEN [threw |-> TRUE,
        error |-> Error("config", <<"P", "a", "t", "h", "s", " ", "f", "i",
            "l", "e", " ", "n", "o", "t", " ", "f", "o", "u", "n", "d", ":",
            " ">> \o filePath)]
  ELSE [threw |-> FALSE, error |-> NotEnded]

\* the catch of main.run: the exit code and what it writes
mainCatch(error) ==
  IF includes(error.message, TxtCancelled)
  THEN [exitCode |-> 0, notices |-> <<"Cancelled.">>]
  ELSE [exitCode |-> 1, notices |-> <<error.message>>]

\* the names of the directories below the working directory
MainRefNames == { <<"r">>, TxtCancelled }

\* checkForPathsFile found no file
NoPathsFile == [none |-> TRUE]

TxtFoundPathsFile == "Found .ralph/paths.json. What would you like to do?"

\* a discovery that asks even when autoRun is set
checkForPathsFile_asks(dir, autoRun, disk, answer) ==
  IF disk[pathsFilePath(dir)] # "ENOENT"
  THEN IF answer = "symbol"
       THEN [threw |-> TRUE, ret |-> NoPathsFile,
             asked |-> <<TxtFoundPathsFile>>]
       ELSE [threw |-> FALSE,
             ret |-> [action |-> answer, path |-> pathsFilePath(dir)],
             asked |-> <<TxtFoundPathsFile>>]
  ELSE [threw |-> FALSE, ret |-> NoPathsFile, asked |-> <<>>]

\* checkForPathsFile(cwd, autoRun): whether it threw, what it returned and
\* the prompts it showed; answer is what the user chooses if asked
checkForPathsFile(dir, autoRun, disk, answer) ==
  IF disk[pathsFilePath(dir)] # "ENOENT"
  THEN IF autoRun
       THEN [threw |-> FALSE,
             ret |-> [action |-> "run", path |-> pathsFilePath(dir)],
             asked |-> <<>>]
       ELSE IF answer = "symbol"
       THEN [threw |-> TRUE, ret |-> NoPathsFile,
             asked |-> <<TxtFoundPathsFile>>]
       ELSE [threw |-> FALSE,
             ret |-> [action |-> answer, path |-> pathsFilePath(dir)],
             asked |-> <<TxtFoundPathsFile>>]
  ELSE [threw |-> FALSE, ret |-> NoPathsFile, asked |-> <<>>]

\* the configuration part of main.run, from checkForPathsFile to the save
\* of .ralph/paths.json: the error it throws, or the configuration, the
\* file it has written and the disk
configure(a, dir, disk, file, ch) ==
  LET filePath == pathsFilePath(dir)
      found == checkForPathsFile(dir, a.yes, disk, ch.action)
      action == IF found.threw THEN "symbol"
                ELSE IF found.ret = NoPathsFile THEN "null"
                ELSE found.ret.action
      later == [disk EXCEPT ![filePath] =
                  IF ch.still THEN @ ELSE "ENOENT"]
      thrown(e, q) == [threw |-> TRUE, error |-> e, config |-> NoConfig,
                       stored |-> NoConfig, disk |-> disk,
                       asked |-> found.asked \o q]
      refs == IF a.refs # <<>>
              THEN [i \in 1..Len(a.refs) |-> resolve(dir, trim(a.refs[i]))]
              ELSE << resolve(dir, ch.selected) >>
      made == [refs |-> refs, output |-> dir]
      qRefs == IF a.refs = <<>> THEN <<"Select refs directories:">> ELSE <<>>
      qOutput == qRefs \o <<"Select output directory:">>
      qSave == qOutput \o <<"Save configuration to .ralph/paths.json?">>
  IN  IF action = "symbol" THEN thrown(SelectionCancelled, <<>>)
      ELSE IF action = "run"
      THEN IF loadPathsFile(later, filePath).threw
           THEN [threw |-> TRUE,
                 error |-> loadPathsFile(later, filePath).error,
                 config |-> NoConfig, stored |-> NoConfig, disk |-> later,
                 asked |-> found.asked]
           ELSE [threw |-> FALSE, error |-> NotEnded,
                 config |-> resolvePathsConfig(file, dir),
                 stored |-> NoConfig, disk |-> later,
                 asked |-> found.asked]
      ELSE IF a.refs = <<>> /\ ch.selected = <<"symbol">>
      THEN thrown(SelectionCancelled, qRefs)
      ELSE IF a.refs = <<>> /\ ch.selected = <<"none found">>
      THEN thrown(Error("other", <<"N", "o", " ", "d", "i", "r", "e", "c", "t",
          "o", "r", "i", "e", "s", " ", "f", "o", "u", "n", "d", " ", "t", "o",
          " ", "s", "e", "l", "e", "c", "t", " ", "f", "r", "o", "m">>), <<>>)
      ELSE IF ch.output = "symbol" THEN thrown(SelectionCancelled, qOutput)
      ELSE IF throwIfCancelled(ch.save, FALSE) # ""
      THEN thrown(SelectionCancelled, qSave)
      ELSE [threw |-> FALSE, error |-> NotEnded, config |-> made,
            stored |-> IF ch.save = JsValue("boolean", "true")
                       THEN [refs |-> [i \in 1..Len(refs) |->
                                         toRelativePath(refs[i], dir)],
                             output |-> toRelativePath(dir, dir)]
                       ELSE NoConfig,
            disk |-> IF ch.save = JsValue("boolean", "true")
                     THEN [disk EXCEPT ![filePath] = "file"]
                     ELSE disk,
            asked |-> found.asked \o qSave]

\* what main.run leaves alone before the loop
mainFrame ==
  UNCHANGED <<iteration, logFile, todoFile, result, currentProc, procStatus,
              scriptN, replies, vcs, vcsCalls, shuttingDown, calls, todoVars,
              killCalls, args, cwd, loaded, reloaded, prompt, stdins,
              authVars, race>>

\* process.exit(code), or the return of main.run
Exits(kind, message, code, out) ==
  /\ ending' = Error(kind, message)
  /\ procExit' = code
  /\ notices' = notices \o out
  /\ pc' = "exited"

\* an error reaches the catch of main.run
Throws(error) ==
  Exits(error.kind, error.message, mainCatch(error).exitCode,
        mainCatch(error).notices)

\* checks that come after a first question to the user
mainPreflight_asks ==
  /\ pc = "main"
  /\ \E installed \in BOOLEAN, isAuthed \in BOOLEAN :
       IF ~installed
       THEN Exits("preflight", <<>>, 1, <<"Claude CLI is not installed">>)
       ELSE IF ~isAuthed
       THEN Exits("preflight", <<>>, 1,
                  <<"Claude CLI is not authenticated">>)
       ELSE /\ pc' = "configure"
            /\ notices' = Append(notices, "Claude authenticated")
            /\ UNCHANGED <<ending, procExit>>
  /\ shown' = Append(shown, "Start processing?")
  /\ UNCHANGED <<config, stored, fs, validation>>
  /\ mainFrame

\* checkClaudeInstallation and checkClaudeAuth
mainPreflight ==
  /\ pc = "main"
  /\ \E installed \in BOOLEAN, isAuthed \in BOOLEAN :
       IF ~installed
       THEN Exits("preflight", <<>>, 1, <<"Claude CLI is not installed">>)
       ELSE IF ~isAuthed
       THEN Exits("preflight", <<>>, 1,
                  <<"Claude CLI is not authenticated">>)
       ELSE /\ pc' = "configure"
            /\ notices' = Append(notices, "Claude authenticated")
            /\ UNCHANGED <<ending, procExit>>
  /\ UNCHANGED <<config, stored, fs, validation, shown>>
  /\ mainFrame

mainConfigure ==
  /\ pc = "configure"
  /\ \E ch \in [ action : {"run", "edit", "prepare", "symbol"}, still :
     BOOLEAN, selected : {<<"symbol">>, <<"none found">>} \cup MainRefNames,
     output : {".", "symbol"}, save : ConfirmResults ] :
       LET c == configure(args, cwd, fs, loaded, ch)
       IN  /\ fs' = c.disk
           /\ stored' = c.stored
           /\ config' = c.config
           /\ shown' = shown \o c.asked
           /\ IF c.threw THEN Throws(c.error)
              ELSE /\ pc' = "validate"
                   /\ UNCHANGED <<ending, procExit, notices>>
  /\ UNCHANGED validation
  /\ mainFrame

mainValidate ==
  /\ pc = "validate"
  /\ LET v == validateConfig(config, fs)
     IN  /\ validation' = [outcome |-> v, before |-> fs, after |-> fs]
         /\ IF v.threw THEN Throws(Error("config", v.message))
            ELSE /\ pc' = "confirm"
                 /\ UNCHANGED <<ending, procExit, notices>>
  /\ UNCHANGED <<config, stored, fs, shown>>
  /\ mainFrame

\* "Start processing?", skipped with --yes
mainConfirm ==
  /\ pc = "confirm"
  /\ IF args.yes
     THEN /\ pc' = "start"
          /\ UNCHANGED <<ending, procExit, notices, shown>>
     ELSE \E proceed \in ConfirmResults :
            /\ shown' = Append(shown, "Start processing?")
            /\ IF throwIfCancelled(proceed, isShuttingDown(shuttingDown)) # ""
               THEN Throws(SelectionCancelled)
               ELSE IF proceed # JsValue("boolean", "true")
               THEN Exits("declined", <<>>, 0, <<"Cancelled.">>)
               ELSE /\ pc' = "start"
                    /\ UNCHANGED <<ending, procExit, notices>>
  /\ UNCHANGED <<config, stored, fs, validation>>
  /\ mainFrame

\* run(config) has returned, or has rejected into the catch
mainReturns ==
  /\ pc \in {"done", "failed"}
  /\ IF pc = "done" THEN Exits("success", <<>>, 0, <<>>)
     ELSE Throws(Error("other", <<"r", "u", "n">>))
  /\ UNCHANGED <<config, stored, fs, validation, shown>>
  /\ mainFrame

InitMain ==
  LET MainDisks(dir) ==
        { [path \in { resolve(dir, n) : n \in MainRefNames }
                     \cup {pathsFilePath(dir)} |->
             IF path = pathsFilePath(dir) THEN f ELSE d[path]] :
            f \in {"file", "ENOENT"},
            d \in [{ resolve(dir, n) : n \in MainRefNames } ->
                     {"directory", "ENOENT"}] }
  IN  /\ pc = "main"
      /\ iteration = 0
      /\ logFile = NoFile
      /\ todoFile = NoFile
      /\ result = NoResult
      /\ procExit = NotExited
      /\ scriptN \in {0, 1}
      /\ replies = <<>>
      /\ vcs = "works"
      /\ vcsCalls = <<>>
      /\ StateIdle
      /\ TodoIdle
      /\ notices = <<>>
      /\ ending = NotEnded
      /\ killCalls = <<>>
      /\ args \in { [yes |-> y, refs |-> r] : y \in BOOLEAN, r \in { <<>>, <<
         <<"r">> >>, <<TxtCancelled>>, << <<" ", "r">>, TxtCancelled >> } }
      /\ shown = <<>>
      /\ prompt = <<>>
      /\ stdins = <<>>
      /\ (/\ authCache = NoCache /\ clock = 0 /\ authCalls = <<>>)
      /\ (race = NoRace)
      /\ cwd \in { <<"/", "a">> }
      /\ fs \in MainDisks(cwd)
      /\ loaded \in IF fs[pathsFilePath(cwd)] = "ENOENT" THEN {NoConfig}
                    ELSE { [refs |-> r, output |-> <<".">>] :
                             r \in {<<>>} \cup { <<n>> : n \in MainRefNames } }
      /\ config = NoConfig
      /\ stored = NoConfig
      /\ reloaded = NoConfig
      /\ validation = NotValidated

NextMain ==
  \/ mainPreflight
  \/ mainConfigure
  \/ mainValidate
  \/ mainConfirm
  \/ initRunner
  \/ runIterationSpawn
  \/ agentExits
  \/ runIterationCollect
  \/ runCommit
  \/ runSleep
  \/ mainReturns
  \/ SIGINT
  \/ SIGTERM

SpecMain == InitMain /\ [][NextMain]_vars

\* C11: cralph exits with code 0 when run() has returned or the user has
\* cancelled, and with another code on a configuration error (a missing
\* ref path, a missing paths file) and on any other error.
C11_ExitCodes ==
  (pc = "exited" /\ ending # NotEnded) =>
    /\ ending.kind \in {"success", "cancel", "declined"} => procExit = 0
    /\ ending.kind \in {"config", "other", "preflight"} =>
         procExit \notin {0, NotExited}

----------------------------------------------------------------------------
(* runner.ts: the check of the agent's authentication and its cache        *)

\* 6 * 60 * 60 * 1000: 6 hours
AUTH_CACHE_TTL_MS == 21600000

\* the auth errors checkClaudeAuth looks for in the output
AuthMarkers ==
  { <<"a", "u", "t", "h", "e", "n", "t", "i", "c", "a", "t", "i", "o", "n",
      "_", "e", "r", "r", "o", "r">>,
    <<"O", "A", "u", "t", "h", " ", "t", "o", "k", "e", "n", " ", "h", "a",
      "s", " ", "e", "x", "p", "i", "r", "e", "d">>,
    <<"P", "l", "e", "a", "s", "e", " ", "r", "u", "n", " ", "/", "l", "o",
      "g", "i", "n">>,
    <<"4", "0", "1">> }

\* What the subprocess of the check may do: Bun.spawn throws, or it exits
\* with an output.  marker records, by construction of the text, whether
\* stdout followed by stderr holds one of the auth errors.
AuthReply(out, err, code, m) ==
  [kind |-> "exit", stdout |-> out, stderr |-> err, exitCode |-> code,
   marker |-> m]

\* the cache file: absent, not JSON, JSON without a timestamp, or JSON with
\* the time of the last successful check
AuthCache(t) == [kind |-> "json", timestamp |-> t]

\* isAuthCacheValid
isAuthCacheValid(cache, now) ==
  IF cache.kind # "json" THEN FALSE
  ELSE now - cache.timestamp < AUTH_CACHE_TTL_MS

\* saveAuthCache: the cache file afterwards; a failed write is ignored
saveAuthCache(cache, now, written) ==
  IF written THEN AuthCache(now) ELSE cache

\* a check that saves the cache as soon as the subprocess has exited
checkClaudeAuth_savesFirst(cache, now, out, written) ==
  IF isAuthCacheValid(cache, now)
  THEN [ret |-> TRUE, spawns |-> 0, cache |-> cache]
  ELSE IF out.kind = "throw"
  THEN [ret |-> FALSE, spawns |-> 1, cache |-> cache]
  ELSE IF \E m \in AuthMarkers :
            includes(captured(out.stdout, out.stderr), m)
  THEN [ret |-> FALSE, spawns |-> 1,
        cache |-> saveAuthCache(cache, now, written)]
  ELSE IF out.exitCode = 0
  THEN [ret |-> TRUE, spawns |-> 1,
        cache |-> saveAuthCache(cache, now, written)]
  ELSE [ret |-> FALSE, spawns |-> 1, cache |-> cache]

\* checkClaudeAuth: what it returns, the subprocesses it spawns, and the
\* cache file afterwards
checkClaudeAuth(cache, now, out, written) ==
  IF isAuthCacheValid(cache, now)
  THEN [ret |-> TRUE, spawns |-> 0, cache |-> cache]
  ELSE IF out.kind = "throw"
  THEN [ret |-> FALSE, spawns |-> 1, cache |-> cache]
  ELSE IF \E m \in AuthMarkers :
            includes(captured(out.stdout, out.stderr), m)
  THEN [ret |-> FALSE, spawns |-> 1, cache |-> cache]
  ELSE IF out.exitCode = 0
  THEN [ret |-> TRUE, spawns |-> 1,
        cache |-> saveAuthCache(cache, now, written)]
  ELSE [ret |-> FALSE, spawns |-> 1, cache |-> cache]

\* time passes between two runs of cralph
clockAdvances ==
  /\ clock = (IF authCalls = <<>> THEN AUTH_CACHE_TTL_MS ELSE
     authCalls[Len(authCalls)].now)
  /\ Len(authCalls) < MaxAuthCalls
  /\ \E d \in {1, AUTH_CACHE_TTL_MS - 1, AUTH_CACHE_TTL_MS} :
       clock' = clock + d
  /\ UNCHANGED <<authCache, authCalls>>
  /\ UNCHANGED <<runnerVars, shuttingDown, calls, pathVars, validateVars,
                 todoVars, cliVars, race>>

\* one call of checkClaudeAuth, by one run of cralph
callCheckClaudeAuth ==
  /\ Len(authCalls) < MaxAuthCalls
  /\ \E out \in { [kind |-> "throw"], AuthReply(TxtOk, <<>>, 0, FALSE),
     AuthReply(<<>>, TxtError, 1, FALSE), AuthReply(<<"4", "0", " ", "1">>,
     <<>>, 0, FALSE), AuthReply(<<>>, <<"a", "u", "t", "h", "e", "n", "t", "i",
         "c", "a", "t", "i", "o", "n", "_", "e", "r", "r", "o", "r">>, 1,
         TRUE),
     AuthReply(<<"O", "A", "u", "t", "h", " ", "t", "o", "k", "e", "n", " ",
         "h", "a", "s", " ", "e", "x", "p", "i", "r", "e", "d">>, <<>>, 0,
         TRUE), AuthReply(TxtDone \o
     <<"P", "l", "e", "a", "s", "e", " ", "r", "u", "n", " ", "/", "l", "o",
         "g", "i", "n">>, <<>>, 1, TRUE), AuthReply(<<"4">>, <<"0", "1">>, 0,
     TRUE), AuthReply(TxtOk, <<"H", "T", "T", "P", " ">> \o <<"4", "0", "1">>,
         0, TRUE) },
     written \in BOOLEAN :
       LET c == checkClaudeAuth(authCache, clock, out, written)
       IN  /\ authCache' = c.cache
           /\ authCalls' =
                Append(authCalls,
                       [before |-> authCache, now |-> clock,
                        spawns |-> c.spawns,
                        reply |-> IF c.spawns = 0 THEN [kind |-> "none"]
                                  ELSE out,
                        ret |-> c.ret, after |-> c.cache])
  /\ UNCHANGED clock
  /\ UNCHANGED <<runnerVars, shuttingDown, calls, pathVars, validateVars,
                 todoVars, cliVars, race>>

InitAuth ==
  /\ RunnerIdle
  /\ StateIdle
  /\ CliIdle
  /\ (race = NoRace)
  /\ ValidateIdle
  /\ TodoIdle
  /\ cwd = <<>>
  /\ loaded = NoConfig
  /\ config = NoConfig
  /\ stored = NoConfig
  /\ reloaded = NoConfig
  /\ clock = AUTH_CACHE_TTL_MS
  /\ authCache \in { NoCache, [kind |-> "corrupt"],
                     [kind |-> "notimestamp"], AuthCache(0), AuthCache(1),
                     AuthCache(AUTH_CACHE_TTL_MS),
                     AuthCache(AUTH_CACHE_TTL_MS + 1) }
  /\ authCalls = <<>>

NextAuth ==
  \/ clockAdvances
  \/ callCheckClaudeAuth

SpecAuth == InitAuth /\ [][NextAuth]_vars

\* C21: a call of checkClaudeAuth that finds a cached timestamp less than
\* 6 hours old returns true and spawns nothing; any other call spawns one
\* check; the cache is written only by a check that exited with code 0 and
\* whose output holds none of the auth errors, and then holds the time of
\* that check; a check that failed leaves the cache as it was.
C21_AuthCache ==
  /\ \A k \in 1..Len(authCalls) :
       LET c == authCalls[k]
           fresh == /\ c.before.kind = "json"
                    /\ c.now - c.before.timestamp < 21600000
           passed == /\ c.reply.kind = "exit"
                     /\ c.reply.exitCode = 0
                     /\ ~c.reply.marker
       IN  /\ fresh => c.ret /\ c.spawns = 0 /\ c.after = c.before
           /\ ~fresh => c.spawns = 1 /\ (c.ret <=> passed)
           /\ c.after # c.before =>
                /\ ~fresh
                /\ passed
                /\ c.after = AuthCache(c.now)
           /\ (~fresh /\ ~passed) => c.after = c.before
  /\ authCalls # <<>> => authCache = authCalls[Len(authCalls)].after

\* no cache: the first run checks and caches; the second run, one
\* millisecond short of six hours later, returns true and spawns nothing
C21_Witness ==
  /\ Len(authCalls) = 2
  /\ authCalls[1].before = NoCache
  /\ authCalls[1].spawns = 1
  /\ authCalls[1].ret
  /\ authCalls[2].now = authCalls[1].now + 21599999
  /\ authCalls[2].spawns = 0
  /\ authCalls[2].ret
  /\ authCache = AuthCache(authCalls[1].now)

----------------------------------------------------------------------------
(* The auxiliary agent calls and their timers: prepareTodo of paths.ts     *)
(* and convertGoalToTasks of runner.ts                                     *)

\* Promise.race has not resolved yet
Unresolved == [kind |-> "pending"]

\* prepareTodo from the race on: the content of the TODO afterwards
prepareTodo(content, res) ==
  IF res.kind = "throw" THEN content
  ELSE IF res.kind = "timeout" THEN content
  ELSE IF res.exitCode # 0 THEN content
  ELSE trim(res.stdout) \o <<"\n">>

raceFrame ==
  UNCHANGED <<pc, iteration, logFile, result, currentProc, procStatus,
              procExit, scriptN, replies, vcs, vcsCalls, prompt, stdins,
              shuttingDown, calls, pathVars, validateVars, todoVars,
              ending, args, shown, authVars>>

\* Bun.spawn of the auxiliary call, and the start of its timer
auxSpawn ==
  /\ race = NoRace
  /\ \E op \in {"prepareTodo", "convertGoalToTasks"}, spawned \in BOOLEAN :
       /\ op = "convertGoalToTasks" => todoFile # NoFile /\ IsGoal(todoFile)
       /\ race' = IF spawned
                  THEN Race(op, "running", "pending", Unresolved, FALSE)
                  ELSE Race(op, "nospawn", "unset", [kind |-> "throw"],
                            FALSE)
  /\ UNCHANGED <<todoFile, notices, killCalls>>
  /\ raceFrame

\* the subprocess closes its output and exits: the first promise of the
\* race resolves
auxCompletes ==
  /\ race # NoRace
  /\ race.proc = "running"
  /\ \E reply \in { c \in ConvOutcomes : c.kind = "exit" } :
       race' = [race EXCEPT !.proc = "exited",
                            !.result = IF @ = Unresolved THEN reply ELSE @]
  /\ UNCHANGED <<todoFile, notices, killCalls>>
  /\ raceFrame

\* a timer that resolves the race without killing the subprocess
auxTimerFires_noKill ==
  /\ race # NoRace
  /\ race.timer = "pending"
  /\ race' = [race EXCEPT !.timer = "fired",
                          !.result = IF @ = Unresolved
                                     THEN [kind |-> "timeout"] ELSE @]
  /\ UNCHANGED <<todoFile, notices, killCalls>>
  /\ raceFrame

\* Bun.sleep is over: proc.kill(), and the second promise of the race
\* resolves with null.  Nothing clears the timer when the subprocess
\* completes first.
auxTimerFires ==
  /\ race # NoRace
  /\ race.timer = "pending"
  /\ killCalls' = Append(killCalls, [proc |-> 1, was |-> race.proc])
  /\ race' = [race EXCEPT !.timer = "fired",
                          !.proc = kill(<<race.proc>>, 1)[1],
                          !.result = IF @ = Unresolved
                                     THEN [kind |-> "timeout"] ELSE @]
  /\ UNCHANGED <<todoFile, notices>>
  /\ raceFrame

\* the function goes on after the race: it reports, writes the TODO if
\* the subprocess exited with code 0, and returns; an error of the write
\* is caught
auxReturns ==
  LET AuxReport(op, res, written) ==
        IF res.kind = "throw"
        THEN IF op = "prepareTodo" THEN "Failed to generate TODO: spawn"
             ELSE "Failed to convert goal: spawn"
        ELSE IF res.kind = "timeout"
        THEN IF op = "prepareTodo" THEN "TODO generation timed out (10s limit)"
             ELSE "Goal conversion timed out (60s limit)"
        ELSE IF res.exitCode # 0
        THEN IF op = "prepareTodo" THEN "Failed to generate TODO.md"
             ELSE "Failed to convert goal to tasks"
        ELSE IF ~written
        THEN IF op = "prepareTodo" THEN "Failed to generate TODO: write"
             ELSE "Failed to convert goal: write"
        ELSE IF op = "prepareTodo" THEN "Generated .ralph/TODO.md"
             ELSE "Task list generated"
  IN  /\ race # NoRace
      /\ race.result # Unresolved
      /\ ~race.returned
      /\ \E written \in BOOLEAN :
           /\ todoFile' = IF ~written THEN todoFile
                          ELSE IF race.op = "prepareTodo"
                          THEN prepareTodo(todoFile, race.result)
                          ELSE convertGoalToTasks(todoFile, race.result)
           /\ notices' = Append(notices, AuxReport(race.op, race.result, written))
      /\ race' = [race EXCEPT !.returned = TRUE]
      /\ UNCHANGED killCalls
      /\ raceFrame

InitRace ==
  /\ pc = "test"
  /\ iteration = 0
  /\ logFile = NoFile
  /\ todoFile \in RunnerTodos
  /\ result = NoResult
  /\ procExit = NotExited
  /\ prompt = <<>>
  /\ stdins = <<>>
  /\ scriptN = 0
  /\ replies = <<>>
  /\ vcs = "works"
  /\ vcsCalls = <<>>
  /\ StateIdle
  /\ ValidateIdle
  /\ TodoIdle
  /\ (/\ authCache = NoCache /\ clock = 0 /\ authCalls = <<>>)
  /\ (race = NoRace)
  /\ notices = <<>>
  /\ ending = NotEnded
  /\ args = [none |-> TRUE]
  /\ killCalls = <<>>
  /\ shown = <<>>
  /\ cwd = <<>>
  /\ loaded = NoConfig
  /\ config = NoConfig
  /\ stored = NoConfig
  /\ reloaded = NoConfig

NextRace ==
  \/ auxSpawn
  \/ auxCompletes
  \/ auxTimerFires
  \/ auxReturns

SpecRace == InitRace /\ [][NextRace]_vars

----------------------------------------------------------------------------
(* paths.ts: the starter structure                                         *)

\* join(cwd, ".ralph") and join(ralphDir, "refs"), for a working directory
\* below the root
ralphDirPath(dir) == dir \o <<"/", ".", "r", "a", "l", "p", "h">>
refsDirPath(dir) == ralphDirPath(dir) \o <<"/", "r", "e", "f", "s">>

\* the pathsConfig createStarterStructure writes
StarterConfig ==
  [refs |-> << <<".", "/", ".", "r", "a", "l", "p", "h", "/", "r", "e", "f",
                 "s">> >>,
   output |-> <<".">>]

\* mkdir(path, { recursive: true }) under dir: it rejects when the path is
\* a file, and creates the missing directories otherwise
mkdirRecursive(disk, dir, path) ==
  IF disk[path] = "file" THEN [threw |-> TRUE, disk |-> disk]
  ELSE [threw |-> FALSE,
        disk |-> [q \in DOMAIN disk |->
                    IF q \in {dir, ralphDirPath(dir), path}
                       /\ Len(q) <= Len(path)
                    THEN "directory" ELSE disk[q]]]

\* a starter structure without the refs directory
createStarterStructure_noRefs(dir, disk, file) ==
  LET made == mkdirRecursive(disk, dir, ralphDirPath(dir))
  IN  IF made.threw
      THEN [threw |-> TRUE, disk |-> made.disk, file |-> file]
      ELSE IF made.disk[pathsFilePath(dir)] = "directory"
      THEN [threw |-> TRUE, disk |-> made.disk, file |-> file]
      ELSE [threw |-> FALSE,
            disk |-> [made.disk EXCEPT ![pathsFilePath(dir)] = "file"],
            file |-> StarterConfig]

\* createStarterStructure(cwd): whether it threw, the disk and the content
\* of .ralph/paths.json afterwards
createStarterStructure(dir, disk, file) ==
  LET made == mkdirRecursive(disk, dir, ralphDirPath(dir))
      refs == mkdirRecursive(made.disk, dir, refsDirPath(dir))
  IN  IF made.threw
      THEN [threw |-> TRUE, disk |-> made.disk, file |-> file]
      ELSE IF refs.threw
      THEN [threw |-> TRUE, disk |-> refs.disk, file |-> file]
      ELSE IF refs.disk[pathsFilePath(dir)] = "directory"
      THEN [threw |-> TRUE, disk |-> refs.disk, file |-> file]
      ELSE [threw |-> FALSE,
            disk |-> [refs.disk EXCEPT ![pathsFilePath(dir)] = "file"],
            file |-> StarterConfig]

\* one call of createStarterStructure on the working directory
callCreateStarterStructure ==
  /\ Len(calls) < MaxStarterCalls
  /\ LET r == createStarterStructure(cwd, fs, stored)
     IN  /\ fs' = r.disk
         /\ stored' = r.file
         /\ calls' = Append(calls, [op |-> "createStarterStructure",
                                    threw |-> r.threw, before |-> fs,
                                    disk |-> r.disk, file |-> r.file])
  /\ UNCHANGED <<loaded, config, validation>>
  /\ (UNCHANGED <<runnerVars, shuttingDown, todoVars, cliVars, authVars, race,
     cwd, reloaded>>)

\* the file is loaded, resolved against the working directory and validated
loadStarter ==
  /\ calls # <<>>
  /\ ~calls[Len(calls)].threw
  /\ validation = NotValidated
  /\ ~loadPathsFile(fs, pathsFilePath(cwd)).threw
  /\ loaded' = stored
  /\ config' = resolvePathsConfig(loaded', cwd)
  /\ validation' = [outcome |-> validateConfig(config', fs),
                    before |-> fs, after |-> fs]
  /\ UNCHANGED <<calls, fs, stored>>
  /\ (UNCHANGED <<runnerVars, shuttingDown, todoVars, cliVars, authVars, race,
     cwd, reloaded>>)

InitStarter ==
  LET StarterDisks(dir) ==
        { d \in [{dir, ralphDirPath(dir), refsDirPath(dir), pathsFilePath(dir),
            <<"/", "a">>} -> {"directory", "file", "ENOENT"}] :
            /\ d[dir] # "file"
            /\ d[ralphDirPath(dir)] # "ENOENT" => d[dir] = "directory"
            /\ d[refsDirPath(dir)] # "ENOENT" => d[ralphDirPath(dir)] = "directory"
            /\ d[pathsFilePath(dir)] # "ENOENT" =>
                 d[ralphDirPath(dir)] = "directory"
            /\ d[<<"/", "a">>] = "directory" }
  IN  /\ RunnerIdle
      /\ StateIdle
      /\ CliIdle
      /\ (/\ authCache = NoCache /\ clock = 0 /\ authCalls = <<>>)
      /\ (race = NoRace)
      /\ TodoIdle
      /\ cwd \in { <<"/", "a">>, <<"/", "a", "/", "t">>,
                   <<"/", "a", "/", "t", "/", "u">> }
      /\ fs \in StarterDisks(cwd)
      /\ stored \in IF fs[pathsFilePath(cwd)] = "file"
                    THEN {[refs |-> << <<".", "/", "a">> >>, output |-> <<".", "/",
                        "a">>], StarterConfig} ELSE {NoConfig}
      /\ loaded = NoConfig
      /\ config = NoConfig
      /\ reloaded = NoConfig
      /\ validation = NotValidated

NextStarter ==
  \/ callCreateStarterStructure
  \/ loadStarter

SpecStarter == InitStarter /\ [][NextStarter]_vars

\* C24: after a call of createStarterStructure that returned,
\* .ralph/paths.json is a file that holds exactly refs = ["./.ralph/refs"]
\* and output = ".", and .ralph/refs is a directory; the file loads,
\* resolves against the working directory and validates; and a call after
\* one that returned returns too and leaves the same disk and the same file.
C24_StarterStructure ==
  /\ \A k \in 1..Len(calls) :
       ~calls[k].threw =>
         /\ calls[k].disk[cwd \o <<"/", ".", "r", "a", "l", "p", "h", "/",
                                  "p", "a", "t", "h", "s", ".", "j", "s",
                                  "o", "n">>] = "file"
         /\ calls[k].disk[cwd \o <<"/", ".", "r", "a", "l", "p", "h", "/",
                                  "r", "e", "f", "s">>] = "directory"
         /\ calls[k].file.refs =
              << <<".", "/", ".", "r", "a", "l", "p", "h", "/", "r", "e",
                   "f", "s">> >>
         /\ calls[k].file.output = <<".">>
         /\ DOMAIN calls[k].file = {"refs", "output"}
  /\ \A k \in 2..Len(calls) :
       ~calls[k - 1].threw =>
         /\ ~calls[k].threw
         /\ calls[k].disk = calls[k - 1].disk
         /\ calls[k].file = calls[k - 1].file
  /\ validation # NotValidated =>
       /\ loaded = calls[1].file
       /\ config.refs = << cwd \o <<"/", ".", "r", "a", "l", "p", "h", "/",
                                    "r", "e", "f", "s">> >>
       /\ config.output = cwd
       /\ ~validation.outcome.threw
       /\ validation.outcome.stats = config.refs

\* an empty place: the first call creates the directory, .ralph, the refs
\* directory and the file, the second call changes nothing, and the file
\* validates
C24_Witness ==
  /\ Len(calls) = 2
  /\ calls[1].before[cwd] = "ENOENT"
  /\ ~calls[1].threw
  /\ ~calls[2].threw
  /\ validation # NotValidated
  /\ ~validation.outcome.threw
  /\ fs[refsDirPath(cwd)] = "directory"

----------------------------------------------------------------------------
(* The reset prompt of a run                                               *)

\* consola.prompt(..., { type: "confirm", cancel: "symbol", initial })
confirm(key, initial) ==
  IF key = "cancel" THEN JsValue("symbol", "Symbol(cancel)")
  ELSE IF key = "y" THEN JsValue("boolean", "true")
  ELSE IF key = "n" THEN JsValue("boolean", "false")
  ELSE JsValue("boolean", IF initial THEN "true" ELSE "false")

\* the reset prompt as one run saw it: the key, what the prompt resolved
\* to, the flag at that moment, what throwIfCancelled threw, and the TODO
\* before and after
ResetRecord(key, response, flag, threw, before, after) ==
  [key |-> key, response |-> response, flag |-> flag, threw |-> threw,
   before |-> before, after |-> after]

resetFrame ==
  UNCHANGED <<currentProc, procStatus, scriptN, replies, vcs, vcsCalls,
              stdins, result, calls, pathVars, validateVars, todo0,
              killCalls, args, authVars, race>>

\* run() up to the reset prompt: initRunner writes the log header, creates
\* a missing TODO, and asks about a TODO that is not clean; without a
\* question it returns and the prompt for the agent is built
resetRunStarts ==
  /\ pc = "start"
  /\ iteration' = 0
  /\ logFile' = logHeader
  /\ IF todoFile = NoFile
     THEN /\ todoFile' = INITIAL_TODO_CONTENT_tasks
          /\ pc' = "loop"
          /\ prompt' = createPrompt(config, todoFilePath(config.output))
          /\ UNCHANGED shown
     ELSE IF ~isTodoClean(todoFile)
     THEN /\ pc' = "prompt"
          /\ shown' = Append(shown, <<"F", "o", "u", "n", "d", " ", "e", "x",
             "i", "s", "t", "i", "n", "g", " ", "T", "O", "D", "O", " ", "w",
             "i", "t", "h", " ", "p", "r", "o", "g", "r", "e", "s", "s", ".",
             " ", "R", "e", "s", "e", "t", " ", "t", "o", " ", "s", "t", "a",
             "r", "t", " ", "f", "r", "e", "s", "h", "?">>)
          /\ UNCHANGED <<todoFile, prompt>>
     ELSE /\ pc' = "loop"
          /\ prompt' = createPrompt(config, todoFilePath(config.output))
          /\ UNCHANGED <<todoFile, shown>>
  /\ UNCHANGED <<shuttingDown, prompted, notices, ending, procExit>>
  /\ resetFrame

\* setShuttingDown() is called while the reset prompt is open, and the
\* prompt returns before the process has ended
resetPromptSignalled ==
  /\ pc = "prompt"
  /\ ~isShuttingDown(shuttingDown)
  /\ shuttingDown' = setShuttingDown(shuttingDown)
  /\ UNCHANGED <<pc, iteration, logFile, todoFile, prompt, shown, prompted,
                 notices, ending, procExit>>
  /\ resetFrame

\* a reset that is written before the answer is checked
resetPromptReturns_writesFirst ==
  /\ pc = "prompt"
  /\ \E key \in {"enter", "y", "n", "cancel"} :
       LET response == confirm(key, TRUE)
           threw == throwIfCancelled(response, shuttingDown)
       IN  /\ todoFile' = INITIAL_TODO_CONTENT_tasks
           /\ prompted' =
                Append(prompted,
                       ResetRecord(key, response, shuttingDown, threw,
                                   todoFile, todoFile'))
           /\ IF threw # ""
              THEN /\ Throws(SelectionCancelled)
                   /\ UNCHANGED prompt
              ELSE /\ pc' = "loop"
                   /\ prompt' =
                        createPrompt(config, todoFilePath(config.output))
                   /\ notices' = Append(notices, "TODO reset to clean state")
                   /\ UNCHANGED <<ending, procExit>>
  /\ UNCHANGED <<iteration, logFile, shuttingDown, shown>>
  /\ resetFrame

\* the reset prompt returns: throwIfCancelled, then the TODO is rewritten
\* on a yes and kept otherwise; an error goes to the catch of main.run
resetPromptReturns ==
  /\ pc = "prompt"
  /\ \E key \in {"enter", "y", "n", "cancel"} :
       LET response == confirm(key, TRUE)
           threw == throwIfCancelled(response, shuttingDown)
       IN  /\ todoFile' =
                IF threw = "" /\ response = JsValue("boolean", "true")
                THEN INITIAL_TODO_CONTENT_tasks
                ELSE todoFile
           /\ prompted' =
                Append(prompted,
                       ResetRecord(key, response, shuttingDown, threw,
                                   todoFile, todoFile'))
           /\ IF threw # ""
              THEN /\ Throws(SelectionCancelled)
                   /\ UNCHANGED prompt
              ELSE /\ pc' = "loop"
                   /\ prompt' =
                        createPrompt(config, todoFilePath(config.output))
                   /\ notices' =
                        Append(notices,
                               IF response = JsValue("boolean", "true")
                               THEN "TODO reset to clean state"
                               ELSE "Continuing with existing TODO state")
                   /\ UNCHANGED <<ending, procExit>>
  /\ UNCHANGED <<iteration, logFile, shuttingDown, shown>>
  /\ resetFrame

\* the rest of runIteration and the loop of the runner that does not
\* commit: the output is logged and classified, the loop ends on the
\* sentinel and sleeps otherwise
resetRunLoop ==
  /\ pc = "agent"
  /\ procStatus[Len(procStatus)] = "exited"
  /\ \E reply \in AgentReplies(scriptN, Len(procStatus)) :
       LET output == captured(reply.stdout, reply.stderr)
       IN  /\ replies' = Append(replies, reply)
           /\ logFile' = log(logFile, output)
           /\ result' = [exitCode |-> reply.exitCode,
                         output |-> output,
                         isComplete |-> isComplete(output)]
           /\ pc' = IF isComplete(output) THEN "done" ELSE "loop"
  /\ currentProc' = null
  /\ UNCHANGED <<iteration, todoFile, procStatus, procExit, scriptN, vcs,
                 vcsCalls, shuttingDown>>
  /\ UNCHANGED <<prompt, stdins>>
  /\ UNCHANGED harnessVars

InitReset ==
  /\ pc = "start"
  /\ iteration = 0
  /\ logFile \in {NoFile, <<"Ralph Session", <<"Iteration ", 1, " starting">>,
     <<"o", "l", "d">>>>}
  /\ todoFile \in {NoFile, INITIAL_TODO_CONTENT_tasks,
     INITIAL_TODO_CONTENT_tasks \o <<"\n">>, TodoProgress,
     INITIAL_TODO_CONTENT_tasks \o <<"x">>}
  /\ result = NoResult
  /\ procExit = NotExited
  /\ scriptN \in 0..MaxN
  /\ replies = <<>>
  /\ vcs = "works"
  /\ vcsCalls = <<>>
  /\ prompt = <<>>
  /\ stdins = <<>>
  /\ StateIdle
  /\ CliIdle
  /\ (/\ authCache = NoCache /\ clock = 0 /\ authCalls = <<>>)
  /\ (race = NoRace)
  /\ ValidateIdle
  /\ TodoIdle
  /\ cwd = <<>>
  /\ loaded = NoConfig
  /\ config = [refs |-> << <<"/", "t", "/", ".", "r", "a", "l", "p", "h", "/",
     "r", "e", "f", "s">> >>, output |-> <<"/", "t">>]
  /\ stored = NoConfig
  /\ reloaded = NoConfig

NextReset ==
  \/ resetRunStarts
  \/ resetPromptSignalled
  \/ resetPromptReturns
  \/ runIterationSpawn
  \/ agentExits
  \/ resetRunLoop
  \/ mainReturns

SpecReset == InitReset /\ [][NextReset]_vars

\* C26: at the reset prompt the default answer is No: accepting the
\* default leaves the TODO as it was, and the TODO is overwritten with the
\* template only when the user answers yes.
C26_ResetDefaultNo ==
  \A k \in 1..Len(prompted) :
    /\ prompted[k].key = "enter" => prompted[k].after = prompted[k].before
    /\ prompted[k].after # prompted[k].before => prompted[k].key = "y"

\* C28: when the reset prompt returns the cancel symbol, or the shutdown
\* flag is set when it returns, initRunner throws "Selection cancelled",
\* the TODO is as it was, no agent was started, and the process exits
\* with code 0.
C28_ResetCancelled ==
  \A k \in 1..Len(prompted) :
    (prompted[k].response.kind = "symbol" \/ prompted[k].flag) =>
      /\ prompted[k].threw = "Selection cancelled"
      /\ ending.message =
           <<"S", "e", "l", "e", "c", "t", "i", "o", "n", " ", "c", "a",
             "n", "c", "e", "l", "l", "e", "d">>
      /\ prompted[k].after = prompted[k].before
      /\ todoFile = prompted[k].before
      /\ iteration = 0
      /\ procStatus = <<>>
      /\ stdins = <<>>
      /\ currentProc = null
      /\ pc = "exited"
      /\ procExit = 0

\* the flag was set while the prompt was open and the user answered yes:
\* the run ended with code 0 and the TODO with progress is still there
C28_Witness ==
  /\ Len(prompted) = 1
  /\ prompted[1].key = "y"
  /\ prompted[1].flag
  /\ prompted[1].before = TodoProgress
  /\ todoFile = TodoProgress
  /\ pc = "exited"
  /\ procExit = 0
  /\ notices = <<"Cancelled.">>

----------------------------------------------------------------------------
(* The prompt of a run                                                     *)

\* does the text s hold the text p somewhere
Holds(s, p) ==
  \E i \in 1..(Len(s) - Len(p) + 1) : SubSeq(s, i, i + Len(p) - 1) = p

\* C23: the prompt is the text buildPrompt gives for the configuration and
\* the TODO path of the run, whatever else the run has done; it holds every
\* ref directory, or "_None_" when there is none, the output directory, the
\* TODO path and the sentinel; run() builds it once, never changes it, and
\* every agent subprocess gets exactly that text on its stdin.
C23_PromptStable ==
  /\ [](prompt # <<>> =>
          /\ prompt = buildPrompt(config, todoFilePath(config.output))
          /\ \A i \in 1..Len(config.refs) : Holds(prompt, config.refs[i])
          /\ config.refs = <<>> => Holds(prompt, TxtNone)
          /\ Holds(prompt, config.output)
          /\ Holds(prompt, config.output \o
                        <<"/", ".", "r", "a", "l", "p", "h", "/", "T", "O",
                          "D", "O", ".", "m", "d">>)
          /\ Holds(prompt, COMPLETION_SIGNAL))
  /\ [](/\ Len(stdins) = Len(procStatus)
        /\ \A k \in 1..Len(stdins) : stdins[k] = prompt /\ prompt # <<>>)
  /\ [][prompt # <<>> => prompt' = prompt]_vars

\* two refs, two iterations: both agents were given the same prompt
C23_Witness ==
  /\ pc = "commit"
  /\ Len(config.refs) = 2
  /\ config.refs[1] # config.refs[2]
  /\ Len(stdins) = 2
  /\ stdins[1] = prompt
  /\ stdins[2] = prompt
  /\ todoFile = TodoProgress

----------------------------------------------------------------------------
(* The discovery of .ralph/paths.json                                      *)

\* C25: checkForPathsFile returns null, without an error and without a
\* prompt, exactly when .ralph/paths.json is absent under the working
\* directory; when the file is there and autoRun is set it returns the run
\* action with the path of the file, again without a prompt.
C25_ConfigDiscovery ==
  /\ [](pc = "configure" =>
          \A answer \in {"run", "edit", "prepare", "symbol"} :
            LET r == checkForPathsFile(cwd, args.yes, fs, answer)
                absent == fs[cwd \o <<"/", ".", "r", "a", "l", "p", "h", "/",
                                      "p", "a", "t", "h", "s", ".", "j", "s",
                                      "o", "n">>] = "ENOENT"
            IN  /\ absent => ~r.threw /\ r.asked = <<>>
                /\ (~r.threw /\ r.ret = NoPathsFile) <=> absent
                /\ (~absent /\ args.yes) =>
                     /\ ~r.threw
                     /\ r.asked = <<>>
                     /\ r.ret.action = "run"
                     /\ r.ret.path = pathsFilePath(cwd))
  /\ [][pc = "configure" =>
          LET exists == fs[pathsFilePath(cwd)] # "ENOENT"
          IN  /\ ~exists =>
                   \A k \in 1..Len(shown') : shown'[k] # TxtFoundPathsFile
              /\ (exists /\ args.yes) => shown' = shown]_vars

\* --yes with a paths file: the configuration was loaded from the file and
\* nothing was asked
C25_Witness ==
  /\ pc = "validate"
  /\ args.yes
  /\ fs[pathsFilePath(cwd)] = "file"
  /\ shown = <<>>
  /\ config = resolvePathsConfig(loaded, cwd)

----------------------------------------------------------------------------
(* The checks before the configuration                                     *)

\* C29: when the agent is not installed or not authenticated, cralph exits
\* with code 1 and has, until then, asked nothing, loaded, validated and
\* saved no configuration, and spawned no agent for an iteration.
C29_PreflightFirst ==
  (pc = "exited" /\ ending # NotEnded /\ ending.kind = "preflight") =>
    /\ procExit = 1
    /\ shown = <<>>
    /\ config = NoConfig
    /\ stored = NoConfig
    /\ validation = NotValidated
    /\ procStatus = <<>>
    /\ stdins = <<>>
    /\ iteration = 0

\* the agent was not authenticated: the paths file that was there was not
\* read
C29_Witness ==
  /\ pc = "exited"
  /\ ending # NotEnded
  /\ ending.kind = "preflight"
  /\ notices = <<"Claude CLI is not authenticated">>
  /\ fs[pathsFilePath(cwd)] = "file"
  /\ procExit = 1

----------------------------------------------------------------------------
(* The TODO during the loop                                                *)

\* C27: once initRunner has returned, the TODO changes only in a step of
\* the agent: runIteration, log, tryCommitProgress, the delay between the
\* iterations and the signal handlers leave it as it is.
C27_TodoFrame ==
  /\ [][(pc # "start" /\ todoFile' # todoFile) =>
          /\ pc = "agent"
          /\ procStatus[Len(procStatus)] = "running"
          /\ procStatus'[Len(procStatus)] = "exited"]_vars
  /\ [][(runIterationSpawn \/ runIterationCollect \/ runCommit \/ runSleep)
          => todoFile' = todoFile]_vars

\* the TODO held a goal when the run started and holds a ticked task now:
\* the agent wrote it
C27_Witness ==
  /\ pc = "sleep"
  /\ race # NoRace
  /\ race.result.kind = "timeout"
  /\ todoFile = TodoProgress
  /\ iteration = 2

----------------------------------------------------------------------------
(* The goal conversion at the start of a run                               *)

====
